---- MODULE Spec2Model ----
(***************************************************************************)
(* A model of the MySQL analytics example: the MysqlSchemaToolkit          *)
(* (examples/mysql_analytics/toolkits/mysql_schema_toolkit.py), which      *)
(* drives the mysql command-line client, and the tool-call guards the two  *)
(* web launchers (run_webui_agents.py, run_webui_clean.py) wrap around it. *)
(*                                                                         *)
(* Text is modelled by TLA+ strings handled character by character, so     *)
(* that trimming, upper-casing, prefix and substring tests are computed    *)
(* the way the Python code computes them.                                  *)
(***************************************************************************)
EXTENDS Integers, Sequences, FiniteSets, TLC

VARIABLES
    conn,              \* MysqlSchemaToolkit.conn : MysqlConn
    schema_cache,      \* MysqlSchemaToolkit.schema_cache : database -> snapshot
    active_tables,     \* MysqlSchemaToolkit.active_tables : list of names
    fs,                \* the local files the toolkit writes (path -> text)
    last,              \* the tool call whose result the agent is being handed:
                       \* inputs, outcome, client invocations ("idle": none)
    launcher,          \* which launcher wired the session ("agents" / "clean")
    observed_db_read,  \* handler._observed_db_read
    er_required,       \* handler._er_required
    er_confirmed,      \* handler._er_confirmed
    last_ask_question, \* handler._last_ask_question
    pending_ask,       \* handler._pending_ask
    pending_ask_id,    \* handler._pending_ask_id
    events,            \* the events the handler has sent to the UI
    asking,            \* the ask_user call awaiting its answer (<<>>: none)
    next_ask_id,       \* how many ask ids have been drawn
    read_since_reset,  \* history: a wrapped read has returned since the last
                       \* generate_er_mermaid / set_active_tables call
    er_unconfirmed,    \* history: generate_er_mermaid / set_active_tables was
                       \* called and no ER confirmation was recorded since
    introspected,      \* history: per database, what the client answered to
                       \* the latest introspection that succeeded, and every
                       \* table name a successful introspection has returned
    saved,             \* history: per path whose text save_session wrote
                       \* last, the toolkit's fields when it was written
    handled,           \* what on_message did with the last message it got
    agent              \* a SimpleAgent: its fields and what its last call did

tk_vars == <<conn, schema_cache, active_tables, fs>>
guard_vars == <<launcher, observed_db_read, er_required, er_confirmed,
                last_ask_question, pending_ask, pending_ask_id, events, asking,
                next_ask_id, read_since_reset, er_unconfirmed>>
vars == <<conn, schema_cache, active_tables, fs, last, launcher,
          observed_db_read, er_required, er_confirmed, last_ask_question,
          pending_ask, pending_ask_id, events, asking, next_ask_id,
          read_since_reset, er_unconfirmed, introspected, saved, handled, agent>>

\* the session around the toolkit: the chat handler's inbox and the agent
session_vars == <<handled, agent>>

-----------------------------------------------------------------------------
(* Python values *)

\* Python's None where a string is expected (str | None).
None == "<None>"

\* Truth value of a str | None: None and "" are false.
Truthy(x) == x # None /\ x # ""

\* Python's 'a or b' on str | None values.
Or(a, b) == IF Truthy(a) THEN a ELSE b

\* int | None arguments: <<>> is None, <<n>> is the int n.
NoInt == <<>>

NoExc == "None"

\* The backquote character, which a TLA+ string cannot hold: this character,
\* which occurs in no other text of the model, stands for it.
BQ == "^"

\* the Markdown code fence, three backquotes
Fence == BQ \o BQ \o BQ

-----------------------------------------------------------------------------
(* str methods *)

Char(s, i) == SubSeq(s, i, i)

\* str.isspace for the characters used here
IsSpace(c) == c \in {" ", "\t", "\n", "\r"}

RECURSIVE LStrip(_)
LStrip(s) ==
    IF s # "" /\ IsSpace(Char(s, 1)) THEN LStrip(SubSeq(s, 2, Len(s))) ELSE s

RECURSIVE RStrip(_)
RStrip(s) ==
    IF s # "" /\ IsSpace(Char(s, Len(s))) THEN RStrip(SubSeq(s, 1, Len(s) - 1)) ELSE s

\* str.strip()
Strip(s) == RStrip(LStrip(s))

\* str.rstrip(";")
RECURSIVE RStripSemi(_)
RStripSemi(s) ==
    IF s # "" /\ Char(s, Len(s)) = ";" THEN RStripSemi(SubSeq(s, 1, Len(s) - 1)) ELSE s

Lower == "abcdefghijklmnopqrstuvwxyz"
UpperCase == "ABCDEFGHIJKLMNOPQRSTUVWXYZ"

UpperChar(c) ==
    IF \E i \in 1..Len(Lower) : Char(Lower, i) = c
    THEN Char(UpperCase, CHOOSE i \in 1..Len(Lower) : Char(Lower, i) = c)
    ELSE c

\* str.upper()
RECURSIVE Upper(_)
Upper(s) ==
    IF s = "" THEN "" ELSE UpperChar(Char(s, 1)) \o Upper(SubSeq(s, 2, Len(s)))

\* str.startswith(p)
StartsWith(s, p) == Len(s) >= Len(p) /\ SubSeq(s, 1, Len(p)) = p

\* str.endswith(p)
EndsWith(s, p) == Len(s) >= Len(p) /\ SubSeq(s, Len(s) - Len(p) + 1, Len(s)) = p

\* 'p in s'
Contains(s, p) ==
    \E i \in 1..(Len(s) - Len(p) + 1) : SubSeq(s, i, i + Len(p) - 1) = p

\* index of the first c in s at or after i, 0 when there is none
RECURSIVE IndexOf(_, _, _)
IndexOf(s, c, i) ==
    IF i > Len(s) THEN 0
    ELSE IF Char(s, i) = c THEN i ELSE IndexOf(s, c, i + 1)

\* str.split(c) for a one-character separator
RECURSIVE Split(_, _)
Split(s, c) ==
    LET i == IndexOf(s, c, 1)
    IN IF i = 0 THEN <<s>>
       ELSE <<SubSeq(s, 1, i - 1)>> \o Split(SubSeq(s, i + 1, Len(s)), c)

\* str.splitlines() for "\n" line ends
RECURSIVE SplitLines(_)
SplitLines(s) ==
    IF s = "" THEN <<>>
    ELSE LET i == IndexOf(s, "\n", 1)
         IN IF i = 0 THEN <<s>>
            ELSE <<SubSeq(s, 1, i - 1)>> \o SplitLines(SubSeq(s, i + 1, Len(s)))

NonBlank(l) == Strip(l) # ""

\* [l for l in lines if l.strip()]
RECURSIVE NonBlankLines(_)
NonBlankLines(xs) ==
    IF xs = <<>> THEN <<>>
    ELSE (IF NonBlank(Head(xs)) THEN <<Head(xs)>> ELSE <<>>) \o NonBlankLines(Tail(xs))

Digits == "0123456789"

\* str(n) / f"{int(n)}" for an int
RECURSIVE NatStr(_)
NatStr(n) ==
    IF n < 10 THEN Char(Digits, n + 1)
    ELSE NatStr(n \div 10) \o Char(Digits, (n % 10) + 1)

IntStr(n) == IF n < 0 THEN "-" \o NatStr(-n) ELSE NatStr(n)

-----------------------------------------------------------------------------
(* MysqlConn and _run_mysql *)

MysqlConn(host, port, user, password, database) ==
    [host |-> host, port |-> port, user |-> user, password |-> password,
     database |-> database]

DefaultPort == 3306

\* MysqlConn(): the dataclass defaults
EmptyConn == MysqlConn("", DefaultPort, "", "", None)

\* list.insert(i, x) with a 0-based index i
ListInsert(xs, i, x) == SubSeq(xs, 1, i) \o <<x>> \o SubSeq(xs, i + 1, Len(xs))

\* A mutant of mysql_args: the password handed over as a -p argument.
mysql_args_with_password(c, sql, db, include_header) ==
    <<"mysql", "-h", c.host, "-P", IntStr(c.port), "-u", c.user,
      "-p" \o c.password, "-B", "-e", sql>>
    \o (IF Truthy(db) THEN <<"-D", db>> ELSE <<>>)

\* The argument vector _run_mysql hands to subprocess.check_output.
mysql_args(c, sql, db, include_header) ==
    LET args0 == <<"mysql", "-h", c.host, "-P", IntStr(c.port), "-u", c.user,
                   "-B", "-e", sql>>
        args1 == IF ~include_header THEN ListInsert(args0, 7, "-N") ELSE args0
    IN IF Truthy(db) THEN args1 \o <<"-D", db>> ELSE args1

\* The client's answer to one invocation: exit status and captured output.
Resp(exit, out) == [exit |-> exit, out |-> out]

\* A mutant of conn_configured: the password is not required.
conn_configured_no_password(c) == Truthy(c.host) /\ Truthy(c.user)

\* conn.host and conn.user and conn.password
conn_configured(c) == Truthy(c.host) /\ Truthy(c.user) /\ Truthy(c.password)

\* A mutant of run_mysql: a non-zero exit is not raised, the output is
\* returned as if the client had succeeded.
run_mysql_no_raise(c, sql, database, include_header, resp) ==
    IF ~conn_configured(c)
    THEN [exc |-> "ValueError",
          msg |-> "MySQL connection is not fully configured (host/user/password required)",
          out |-> "", calls |-> <<>>]
    ELSE [exc |-> NoExc, msg |-> "", out |-> resp.out,
          calls |-> <<[args |-> mysql_args(c, sql, Or(database, c.database),
                                           include_header),
                       MYSQL_PWD |-> c.password, exit |-> resp.exit,
                       output |-> resp.out]>>]

\* _run_mysql: what it raises, what it returns, and the client invocations
\* it made (at most one): the argument vector, MYSQL_PWD in the environment,
\* the exit status and the captured output.
run_mysql(c, sql, database, include_header, resp) ==
    LET db == Or(database, c.database)
    IN IF ~conn_configured(c)
       THEN [exc |-> "ValueError",
             msg |-> "MySQL connection is not fully configured (host/user/password required)",
             out |-> "", calls |-> <<>>]
       ELSE LET call == [args |-> mysql_args(c, sql, db, include_header),
                         MYSQL_PWD |-> c.password,
                         exit |-> resp.exit,
                         output |-> resp.out]
            IN IF resp.exit = 0
               THEN [exc |-> NoExc, msg |-> "", out |-> resp.out, calls |-> <<call>>]
               ELSE [exc |-> "RuntimeError",
                     msg |-> "mysql CLI failed: " \o resp.out,
                     out |-> "", calls |-> <<call>>]

-----------------------------------------------------------------------------
(* int() *)

IsDigit(c) == \E i \in 1..Len(Digits) : Char(Digits, i) = c

DigitVal(c) == (CHOOSE i \in 1..Len(Digits) : Char(Digits, i) = c) - 1

AllDigits(s) == s # "" /\ \A i \in 1..Len(s) : IsDigit(Char(s, i))

RECURSIVE NatVal(_)
NatVal(s) ==
    IF s = "" THEN 0
    ELSE 10 * NatVal(SubSeq(s, 1, Len(s) - 1)) + DigitVal(Char(s, Len(s)))

\* int(s) accepts surrounding whitespace and a sign; otherwise ValueError.
IntOk(s) ==
    LET t == Strip(s)
        u == IF t # "" /\ Char(t, 1) \in {"-", "+"} THEN SubSeq(t, 2, Len(t)) ELSE t
    IN AllDigits(u)

IntVal(s) ==
    LET t == Strip(s)
    IN IF Char(t, 1) = "-" THEN -NatVal(SubSeq(t, 2, Len(t)))
       ELSE IF Char(t, 1) = "+" THEN NatVal(SubSeq(t, 2, Len(t)))
       ELSE NatVal(t)

-----------------------------------------------------------------------------
(* The toolkit.  'self' is [conn, schema_cache, active_tables]; 'files' is  *)
(* the local file system.  Every operation yields an Outcome: the toolkit  *)
(* and files afterwards, the exception raised (NoExc when it returns), the *)
(* value returned and the client invocations made, in order.  'resps' is   *)
(* the sequence of answers the mysql client gives to these invocations.    *)

Toolkit(c, cache, active) ==
    [conn |-> c, schema_cache |-> cache, active_tables |-> active]

Outcome(self, files, exc, msg, ret, calls) ==
    [self |-> self, files |-> files, exc |-> exc, msg |-> msg, ret |-> ret,
     calls |-> calls]

Raise(self, files, exc, msg, calls) == Outcome(self, files, exc, msg, None, calls)

Return(self, files, ret, calls) == Outcome(self, files, NoExc, "", ret, calls)

\* MysqlSchemaToolkit.__init__
NewToolkit == Toolkit(EmptyConn, [d \in {} |-> None], <<>>)

\* the files present before the toolkit wrote any
NoFiles == [files |-> [p \in {} |-> ""], dirs |-> {"."}]

\* open(path, "w").write(text)
WriteFile(files, path, text) ==
    [files EXCEPT !.files =
        [p \in DOMAIN files.files \cup {path} |->
            IF p = path THEN text ELSE files.files[p]]]

RECURSIVE LastIndexOf(_, _, _)
LastIndexOf(s, c, i) ==
    IF i < 1 THEN 0
    ELSE IF Char(s, i) = c THEN i ELSE LastIndexOf(s, c, i - 1)

RECURSIVE RStripSlash(_)
RStripSlash(s) ==
    IF s # "" /\ Char(s, Len(s)) = "/" THEN RStripSlash(SubSeq(s, 1, Len(s) - 1)) ELSE s

\* os.path.dirname
Dirname(p) ==
    LET head == SubSeq(p, 1, LastIndexOf(p, "/", Len(p)))
    IN IF head # "" /\ RStripSlash(head) # "" THEN RStripSlash(head) ELSE head

\* os.makedirs(d, exist_ok=True)
MakeDirs(files, d) == [files EXCEPT !.dirs = @ \cup {d}]

\* A mutant of set_connection: a new connection empties the schema cache.
set_connection_clearing_cache(self, files, host, port, user, password, database, resps) ==
    LET self1 == [self EXCEPT !.conn = MysqlConn(host, port, user, password, database),
                              !.schema_cache = [d \in {} |-> None]]
        r == run_mysql(self1.conn, "SELECT 1;", None, FALSE, resps[1])
    IN IF r.exc # NoExc THEN Raise(self1, files, r.exc, r.msg, r.calls)
       ELSE Return(self1, files, "mysql connection ok", r.calls)

\* set_connection
set_connection(self, files, host, port, user, password, database, resps) ==
    LET self1 == [self EXCEPT !.conn = MysqlConn(host, port, user, password, database)]
        r == run_mysql(self1.conn, "SELECT 1;", None, FALSE, resps[1])
    IN IF r.exc # NoExc THEN Raise(self1, files, r.exc, r.msg, r.calls)
       ELSE Return(self1, files, "mysql connection ok", r.calls)

SystemSchemas == {"information_schema", "performance_schema", "sys", "mysql"}

\* [line.strip() for line in lines if line.strip()]
RECURSIVE StrippedNonBlank(_)
StrippedNonBlank(xs) ==
    IF xs = <<>> THEN <<>>
    ELSE (IF NonBlank(Head(xs)) THEN <<Strip(Head(xs))>> ELSE <<>>)
         \o StrippedNonBlank(Tail(xs))

\* [d for d in dbs if d not in system]
RECURSIVE DropSystem(_)
DropSystem(xs) ==
    IF xs = <<>> THEN <<>>
    ELSE (IF Head(xs) \in SystemSchemas THEN <<>> ELSE <<Head(xs)>>)
         \o DropSystem(Tail(xs))

\* list_databases
list_databases(self, files, exclude_system, resps) ==
    LET r == run_mysql(self.conn, "SHOW DATABASES;", None, FALSE, resps[1])
        dbs == StrippedNonBlank(SplitLines(r.out))
    IN IF r.exc # NoExc THEN Raise(self, files, r.exc, r.msg, r.calls)
       ELSE Return(self, files, IF exclude_system THEN DropSystem(dbs) ELSE dbs, r.calls)

\* the {"database", "tables"} items of pick_candidate_databases, system
\* schemas dropped; a line of two fields whose second is no int makes
\* int() raise
RECURSIVE CandidateItems(_)
CandidateItems(xs) ==
    IF xs = <<>> THEN <<>>
    ELSE LET parts == Split(Head(xs), "\t")
         IN (IF Len(parts) = 2 /\ parts[1] \notin SystemSchemas
             THEN <<[database |-> parts[1], tables |-> IntVal(parts[2])]>>
             ELSE <<>>)
            \o CandidateItems(Tail(xs))

CandidatesParse(xs) ==
    \A i \in 1..Len(xs) :
        LET parts == Split(xs[i], "\t") IN Len(parts) = 2 => IntOk(parts[2])

\* pick_candidate_databases
pick_candidate_databases(self, files, top_k, resps) ==
    LET sql == "SELECT table_schema, COUNT(*) AS n "
               \o "FROM information_schema.tables GROUP BY table_schema ORDER BY n DESC LIMIT "
               \o IntStr(top_k) \o ";"
        r == run_mysql(self.conn, sql, None, FALSE, resps[1])
        lines == SplitLines(r.out)
    IN IF r.exc # NoExc THEN Raise(self, files, r.exc, r.msg, r.calls)
       ELSE IF ~CandidatesParse(lines)
       THEN Raise(self, files, "ValueError", "invalid literal for int()", r.calls)
       ELSE Return(self, files, CandidateItems(lines), r.calls)

-----------------------------------------------------------------------------
(* Schema introspection *)

\* A mutant of resolve_db: with no database given or stored, the server's
\* system database is used.
resolve_db_defaulting(self, database) == Or(Or(database, self.conn.database), "mysql")

\* database or self.conn.database
resolve_db(self, database) == Or(database, self.conn.database)

sql_tables(db) ==
    "SELECT table_name FROM information_schema.tables WHERE table_schema = '"
    \o db \o "' ORDER BY table_name;"

sql_cols(db) ==
    "SELECT table_name, column_name, column_key, data_type, is_nullable "
    \o "FROM information_schema.columns WHERE table_schema = '"
    \o db \o "' ORDER BY table_name, ordinal_position;"

sql_fks(db) ==
    "SELECT table_name, column_name, referenced_table_name, referenced_column_name "
    \o "FROM information_schema.key_column_usage WHERE table_schema = '"
    \o db \o "' AND referenced_table_name IS NOT NULL;"

\* the column records of the lines that split into exactly 5 fields
RECURSIVE ParseColumns(_)
ParseColumns(xs) ==
    IF xs = <<>> THEN <<>>
    ELSE LET parts == Split(Head(xs), "\t")
         IN (IF Len(parts) = 5
             THEN <<[table |-> parts[1], name |-> parts[2], key |-> parts[3],
                     type |-> parts[4], nullable |-> parts[5]]>>
             ELSE <<>>)
            \o ParseColumns(Tail(xs))

\* the foreign-key records of the lines that split into exactly 4 fields
RECURSIVE ParseFks(_)
ParseFks(xs) ==
    IF xs = <<>> THEN <<>>
    ELSE LET parts == Split(Head(xs), "\t")
         IN (IF Len(parts) = 4
             THEN <<[table |-> parts[1], column |-> parts[2],
                     ref_table |-> parts[3], ref_column |-> parts[4]]>>
             ELSE <<>>)
            \o ParseFks(Tail(xs))

\* A mutant of CachePut: a snapshot already cached for db keeps its tables,
\* the new ones are added to them.
CachePutMerging(cache, db, meta) ==
    [d \in DOMAIN cache \cup {db} |->
        IF d # db THEN cache[d]
        ELSE IF db \in DOMAIN cache
        THEN [meta EXCEPT !.tables =
                 cache[db].tables
                 \o SelectSeq(meta.tables,
                              LAMBDA t : \A i \in 1..Len(cache[db].tables) :
                                            cache[db].tables[i] # t)]
        ELSE meta]

\* self.schema_cache[db] = meta
CachePut(cache, db, meta) ==
    [d \in DOMAIN cache \cup {db} |-> IF d = db THEN meta ELSE cache[d]]

\* A mutant of introspect_schema: what was read so far is cached when the
\* foreign-key query fails.
introspect_schema_caching_partial(self, files, database, resps) ==
    LET db == resolve_db(self, database)
        r1 == run_mysql(self.conn, sql_tables(db), None, FALSE, resps[1])
        r2 == run_mysql(self.conn, sql_cols(db), None, FALSE, resps[2])
        r3 == run_mysql(self.conn, sql_fks(db), None, FALSE, resps[3])
        meta == [database |-> db,
                 tables |-> StrippedNonBlank(SplitLines(r1.out)),
                 columns |-> ParseColumns(SplitLines(r2.out)),
                 fks |-> ParseFks(SplitLines(r3.out))]
    IN IF ~Truthy(db)
       THEN Raise(self, files, "ValueError",
                  "database is not set; call set_connection or pass database", <<>>)
       ELSE IF r1.exc # NoExc THEN Raise(self, files, r1.exc, r1.msg, r1.calls)
       ELSE IF r2.exc # NoExc
       THEN Raise(self, files, r2.exc, r2.msg, r1.calls \o r2.calls)
       ELSE IF r3.exc # NoExc
       THEN Raise([self EXCEPT !.schema_cache = CachePut(@, db, meta)], files,
                  r3.exc, r3.msg, r1.calls \o r2.calls \o r3.calls)
       ELSE Return([self EXCEPT !.schema_cache = CachePut(@, db, meta)], files,
                   meta, r1.calls \o r2.calls \o r3.calls)

\* introspect_schema: three catalog queries, then the snapshot is cached
introspect_schema(self, files, database, resps) ==
    LET db == resolve_db(self, database)
        r1 == run_mysql(self.conn, sql_tables(db), None, FALSE, resps[1])
        r2 == run_mysql(self.conn, sql_cols(db), None, FALSE, resps[2])
        r3 == run_mysql(self.conn, sql_fks(db), None, FALSE, resps[3])
        meta == [database |-> db,
                 tables |-> StrippedNonBlank(SplitLines(r1.out)),
                 columns |-> ParseColumns(SplitLines(r2.out)),
                 fks |-> ParseFks(SplitLines(r3.out))]
    IN IF ~Truthy(db)
       THEN Raise(self, files, "ValueError",
                  "database is not set; call set_connection or pass database", <<>>)
       ELSE IF r1.exc # NoExc THEN Raise(self, files, r1.exc, r1.msg, r1.calls)
       ELSE IF r2.exc # NoExc
       THEN Raise(self, files, r2.exc, r2.msg, r1.calls \o r2.calls)
       ELSE IF r3.exc # NoExc
       THEN Raise(self, files, r3.exc, r3.msg, r1.calls \o r2.calls \o r3.calls)
       ELSE Return([self EXCEPT !.schema_cache = CachePut(@, db, meta)], files,
                   meta, r1.calls \o r2.calls \o r3.calls)

\* A mutant of cached_or_introspect: the cache is not consulted.
always_introspect(self, files, db, resps) == introspect_schema(self, files, db, resps)

\* self.schema_cache.get(db) or await self.introspect_schema(db): the
\* outcome whose ret is the snapshot used (a cached snapshot is a non-empty
\* dict, hence true)
cached_or_introspect(self, files, db, resps) ==
    IF db \in DOMAIN self.schema_cache
    THEN Return(self, files, self.schema_cache[db], <<>>)
    ELSE introspect_schema(self, files, db, resps)

-----------------------------------------------------------------------------
(* Identifier sanitizer and type normalizer *)

IsAlpha(c) == \E i \in 1..Len(Lower) : c \in {Char(Lower, i), Char(UpperCase, i)}

\* re.sub(r"[^A-Za-z0-9_]", "_", s)
RECURSIVE SubNonWord(_)
SubNonWord(s) ==
    IF s = "" THEN ""
    ELSE (IF IsAlpha(Char(s, 1)) \/ IsDigit(Char(s, 1)) \/ Char(s, 1) = "_"
          THEN Char(s, 1) ELSE "_")
         \o SubNonWord(SubSeq(s, 2, Len(s)))

\* A mutant of sanitize_identifier: the prefix is added only to an empty
\* result, not to one that starts with a digit or an underscore.
sanitize_identifier_prefix_if_empty(name, prefix) ==
    LET s == SubNonWord(Strip(Or(name, "")))
    IN IF s = "" THEN prefix \o "_" ELSE s

\* _sanitize_identifier
sanitize_identifier(name, prefix) ==
    LET s == SubNonWord(Strip(Or(name, "")))
    IN IF s = "" THEN prefix \o "_"
       ELSE IF ~IsAlpha(Char(s, 1)) THEN prefix \o "_" \o s
       ELSE s

LowerChar(c) ==
    IF \E i \in 1..Len(UpperCase) : Char(UpperCase, i) = c
    THEN Char(Lower, CHOOSE i \in 1..Len(UpperCase) : Char(UpperCase, i) = c)
    ELSE c

\* str.lower()
RECURSIVE ToLower(_)
ToLower(s) ==
    IF s = "" THEN "" ELSE LowerChar(Char(s, 1)) \o ToLower(SubSeq(s, 2, Len(s)))

\* any(x in tl for x in words)
ContainsAny(tl, words) == \E w \in words : Contains(tl, w)

\* A mutant of normalize_type: the bool rule is tried before the int rule.
normalize_type_bool_first(t) ==
    LET tl == ToLower(Or(t, ""))
    IN IF ContainsAny(tl, {"bool", "tinyint(1)"}) THEN "bool"
       ELSE IF Contains(tl, "int") THEN "int"
       ELSE IF ContainsAny(tl, {"decimal", "numeric", "float", "double", "real"})
       THEN "float"
       ELSE IF ContainsAny(tl, {"date", "time", "year", "timestamp"}) THEN "datetime"
       ELSE "string"

\* _normalize_type
normalize_type(t) ==
    LET tl == ToLower(Or(t, ""))
    IN IF Contains(tl, "int") THEN "int"
       ELSE IF ContainsAny(tl, {"decimal", "numeric", "float", "double", "real"})
       THEN "float"
       ELSE IF ContainsAny(tl, {"bool", "tinyint(1)"}) THEN "bool"
       ELSE IF ContainsAny(tl, {"date", "time", "year", "timestamp"}) THEN "datetime"
       ELSE IF ContainsAny(tl, {"char", "text", "blob", "binary", "json"}) THEN "string"
       ELSE "string"

-----------------------------------------------------------------------------
(* ER diagram *)

InSeq(x, xs) == \E i \in 1..Len(xs) : xs[i] = x

\* [t for t in ts if t in known]
RECURSIVE KeepKnown(_, _)
KeepKnown(ts, known) ==
    IF ts = <<>> THEN <<>>
    ELSE (IF InSeq(Head(ts), known) THEN <<Head(ts)>> ELSE <<>>)
         \o KeepKnown(Tail(ts), known)

\* A mutant of include_tables: the stored selection is preferred to the
\* tables argument.
include_tables_active_first(self, meta, tables) ==
    KeepKnown(IF self.active_tables # <<>> THEN self.active_tables
              ELSE IF tables # <<>> THEN tables
              ELSE meta.tables,
              meta.tables)

\* tables or (self.active_tables if self.active_tables else meta["tables"]),
\* restricted to the snapshot's tables; a tables argument of None or [] is <<>>
include_tables(self, meta, tables) ==
    KeepKnown(IF tables # <<>> THEN tables
              ELSE IF self.active_tables # <<>> THEN self.active_tables
              ELSE meta.tables,
              meta.tables)

\* the relationship line of one foreign key
rel_line(fk) ==
    "  " \o sanitize_identifier(fk.ref_table, "T") \o " ||--o{ "
    \o sanitize_identifier(fk.table, "T") \o " : "
    \o sanitize_identifier(fk.column, "C") \o "__TO__"
    \o sanitize_identifier(fk.ref_column, "C")

\* A mutant of rel_lines: a foreign key is skipped only when both of its
\* tables are outside the included ones.
RECURSIVE rel_lines_either_endpoint(_, _)
rel_lines_either_endpoint(fks, include) ==
    IF fks = <<>> THEN <<>>
    ELSE (IF ~InSeq(Head(fks).ref_table, include) /\ ~InSeq(Head(fks).table, include)
          THEN <<>> ELSE <<rel_line(Head(fks))>>)
         \o rel_lines_either_endpoint(Tail(fks), include)

\* one line per foreign key whose parent and child are both included
RECURSIVE rel_lines(_, _)
rel_lines(fks, include) ==
    IF fks = <<>> THEN <<>>
    ELSE (IF ~InSeq(Head(fks).ref_table, include) \/ ~InSeq(Head(fks).table, include)
          THEN <<>> ELSE <<rel_line(Head(fks))>>)
         \o rel_lines(Tail(fks), include)

\* the column lines of table t, in catalog order
RECURSIVE column_lines(_, _)
column_lines(cols, t) ==
    IF cols = <<>> THEN <<>>
    ELSE (IF Head(cols).table = t
          THEN <<"    " \o normalize_type(Head(cols).type) \o " "
                 \o sanitize_identifier(Head(cols).name, "C")
                 \o (IF Head(cols).key = "PRI" THEN " PK" ELSE "")>>
          ELSE <<>>)
         \o column_lines(Tail(cols), t)

\* one entity block per element of include, in the order of include
RECURSIVE entity_lines(_, _)
entity_lines(include, cols) ==
    IF include = <<>> THEN <<>>
    ELSE <<"  " \o sanitize_identifier(Head(include), "T") \o " {">>
         \o column_lines(cols, Head(include))
         \o <<"  }">>
         \o entity_lines(Tail(include), cols)

\* sep.join(xs)
RECURSIVE Join(_, _)
Join(xs, sep) ==
    IF xs = <<>> THEN ""
    ELSE IF Len(xs) = 1 THEN xs[1]
    ELSE xs[1] \o sep \o Join(Tail(xs), sep)

\* the lines of the diagram body
mermaid_lines(self, meta, tables) ==
    LET include == include_tables(self, meta, tables)
    IN <<"erDiagram">> \o rel_lines(meta.fks, include)
       \o entity_lines(include, meta.columns)

\* generate_er_mermaid
generate_er_mermaid(self, files, database, tables, resps) ==
    LET db == resolve_db(self, database)
        m == cached_or_introspect(self, files, db, resps)
    IN IF ~Truthy(db) THEN Raise(self, files, "ValueError", "database is not set", <<>>)
       ELSE IF m.exc # NoExc THEN m
       ELSE Return(m.self, files,
                   Fence \o "mermaid\n" \o Join(mermaid_lines(m.self, m.ret, tables), "\n")
                   \o "\n" \o Fence,
                   m.calls)

\* list_tables
list_tables(self, files, database, resps) ==
    LET db == resolve_db(self, database)
        m == cached_or_introspect(self, files, db, resps)
    IN IF ~Truthy(db) THEN Raise(self, files, "ValueError", "database is not set", <<>>)
       ELSE IF m.exc # NoExc THEN m
       ELSE Return(m.self, files, m.ret.tables, m.calls)

\* regex.search(t) for a pattern of literal segments joined by ".*": the
\* segments occur in t in this order, without overlapping
RECURSIVE SearchSegments(_, _)
SearchSegments(t, segs) ==
    IF segs = <<>> THEN TRUE
    ELSE \E i \in 1..(Len(t) - Len(Head(segs)) + 1) :
            /\ SubSeq(t, i, i + Len(Head(segs)) - 1) = Head(segs)
            /\ SearchSegments(SubSeq(t, i + Len(Head(segs)), Len(t)), Tail(segs))

RECURSIVE KeepMatching(_, _)
KeepMatching(ts, segs) ==
    IF ts = <<>> THEN <<>>
    ELSE (IF SearchSegments(Head(ts), segs) THEN <<Head(ts)>> ELSE <<>>)
         \o KeepMatching(Tail(ts), segs)

\* list_tables_like, for patterns of letters, digits, "_" and "%"
list_tables_like(self, files, pattern, database, resps) ==
    LET db == resolve_db(self, database)
        m == list_tables(self, files, db, resps)
    IN IF ~Truthy(db) THEN Raise(self, files, "ValueError", "database is not set", <<>>)
       ELSE IF m.exc # NoExc THEN m
       ELSE Return(m.self, files, KeepMatching(m.ret, Split(pattern, "%")), m.calls)

\* the {"table", "rows"} items; rows is the int, or the raw field when
\* int() rejects it
RECURSIVE DetailedItems(_)
DetailedItems(xs) ==
    IF xs = <<>> THEN <<>>
    ELSE LET parts == Split(Head(xs), "\t")
         IN (IF Len(parts) = 2
             THEN <<[table |-> parts[1],
                     rows |-> IF IntOk(parts[2]) THEN IntVal(parts[2]) ELSE parts[2]]>>
             ELSE <<>>)
            \o DetailedItems(Tail(xs))

\* list_tables_detailed
list_tables_detailed(self, files, database, resps) ==
    LET db == resolve_db(self, database)
        sql == "SELECT table_name, table_rows FROM information_schema.tables "
               \o "WHERE table_schema = '" \o db
               \o "' ORDER BY table_rows DESC, table_name;"
        r == run_mysql(self.conn, sql, None, FALSE, resps[1])
    IN IF ~Truthy(db) THEN Raise(self, files, "ValueError", "database is not set", <<>>)
       ELSE IF r.exc # NoExc THEN Raise(self, files, r.exc, r.msg, r.calls)
       ELSE Return(self, files, DetailedItems(SplitLines(r.out)), r.calls)

\* show_create_table
show_create_table(self, files, table, database, resps) ==
    LET db == resolve_db(self, database)
        sql == "SHOW CREATE TABLE " \o BQ \o db \o BQ \o "." \o BQ \o table \o BQ \o ";"
        r == run_mysql(self.conn, sql, db, TRUE, resps[1])
    IN IF ~Truthy(db) THEN Raise(self, files, "ValueError", "database is not set", <<>>)
       ELSE IF r.exc # NoExc THEN Raise(self, files, r.exc, r.msg, r.calls)
       ELSE Return(self, files, r.out, r.calls)

\* show_indexes
show_indexes(self, files, table, database, resps) ==
    LET db == resolve_db(self, database)
        sql == "SHOW INDEX FROM " \o BQ \o db \o BQ \o "." \o BQ \o table \o BQ \o ";"
        r == run_mysql(self.conn, sql, db, TRUE, resps[1])
    IN IF ~Truthy(db) THEN Raise(self, files, "ValueError", "database is not set", <<>>)
       ELSE IF r.exc # NoExc THEN Raise(self, files, r.exc, r.msg, r.calls)
       ELSE Return(self, files, r.out, r.calls)

\* get_table_row_count: COUNT(*) first; any exception of that attempt (the
\* client failing, the connection check, int() rejecting the field) is
\* caught and a second query asks information_schema for the approximate
\* count, whose own exception propagates
get_table_row_count(self, files, table, database, resps) ==
    LET db == resolve_db(self, database)
        sql == "SELECT COUNT(*) AS n FROM " \o BQ \o db \o BQ \o "." \o BQ \o table \o BQ
        r1 == run_mysql(self.conn, sql, db, TRUE, resps[1])
        lines1 == NonBlankLines(SplitLines(r1.out))
        field == Split(lines1[2], "\t")[1]
        sql2 == "SELECT table_rows FROM information_schema.tables "
                \o "WHERE table_schema = '" \o db \o "' AND table_name = '"
                \o table \o "'"
        r2 == run_mysql(self.conn, sql2, None, FALSE, resps[2])
        lines2 == NonBlankLines(SplitLines(r2.out))
        calls == r1.calls \o r2.calls
    IN IF ~Truthy(db) THEN Raise(self, files, "ValueError", "database is not set", <<>>)
       ELSE IF r1.exc = NoExc /\ Len(lines1) < 2 THEN Return(self, files, -1, r1.calls)
       ELSE IF r1.exc = NoExc /\ IntOk(field)
       THEN Return(self, files, IntVal(field), r1.calls)
       ELSE IF r2.exc # NoExc THEN Raise(self, files, r2.exc, r2.msg, calls)
       ELSE IF lines2 # <<>> /\ IntOk(lines2[1])
       THEN Return(self, files, IntVal(lines2[1]), calls)
       ELSE Return(self, files, -1, calls)

-----------------------------------------------------------------------------
(* Semantic table search and the active selection *)

\* +3 per keyword in the table name, +1 per keyword in a column of the table
RECURSIVE score_columns(_, _, _)
score_columns(cols, t, k) ==
    IF cols = <<>> THEN 0
    ELSE (IF Head(cols).table = t /\ Contains(ToLower(Head(cols).name), k) THEN 1 ELSE 0)
         + score_columns(Tail(cols), t, k)

RECURSIVE score_table(_, _, _)
score_table(t, keywords, cols) ==
    IF keywords = <<>> THEN 0
    ELSE (IF Contains(ToLower(t), ToLower(Head(keywords))) THEN 3 ELSE 0)
         + score_columns(cols, t, ToLower(Head(keywords)))
         + score_table(t, Tail(keywords), cols)

RECURSIVE scored_tables(_, _, _)
scored_tables(ts, keywords, cols) ==
    IF ts = <<>> THEN <<>>
    ELSE <<[table |-> Head(ts), score |-> score_table(Head(ts), keywords, cols)]>>
         \o scored_tables(Tail(ts), keywords, cols)

\* insert x after the elements whose score is at least x's
RECURSIVE InsertByScore(_, _)
InsertByScore(sorted, x) ==
    IF sorted = <<>> THEN <<x>>
    ELSE IF Head(sorted).score >= x.score
    THEN <<Head(sorted)>> \o InsertByScore(Tail(sorted), x)
    ELSE <<x>> \o sorted

\* list.sort(key=score, reverse=True): stable, highest score first
RECURSIVE SortByScore(_)
SortByScore(xs) ==
    IF xs = <<>> THEN <<>>
    ELSE InsertByScore(SortByScore(SubSeq(xs, 1, Len(xs) - 1)), xs[Len(xs)])

RECURSIVE PositiveScores(_)
PositiveScores(xs) ==
    IF xs = <<>> THEN <<>>
    ELSE (IF Head(xs).score > 0 THEN <<Head(xs)>> ELSE <<>>) \o PositiveScores(Tail(xs))

\* xs[:k] for k >= 0
Take(xs, k) == SubSeq(xs, 1, IF k < Len(xs) THEN k ELSE Len(xs))

\* find_semantic_tables, for top_k >= 0
find_semantic_tables(self, files, keywords, database, top_k, resps) ==
    LET db == resolve_db(self, database)
        m == cached_or_introspect(self, files, db, resps)
    IN IF ~Truthy(db) THEN Raise(self, files, "ValueError", "database is not set", <<>>)
       ELSE IF m.exc # NoExc THEN m
       ELSE Return(m.self, files,
                   Take(PositiveScores(SortByScore(
                            scored_tables(m.ret.tables, keywords, m.ret.columns))),
                        top_k),
                   m.calls)

\* set_active_tables
set_active_tables(self, files, tables) ==
    Return([self EXCEPT !.active_tables = tables], files,
           [ok |-> TRUE, active_tables |-> tables], <<>>)

\* get_active_selection
get_active_selection(self, files) ==
    Return(self, files,
           [database |-> self.conn.database, tables |-> self.active_tables], <<>>)

-----------------------------------------------------------------------------
(* Query and export *)

\* A mutant of wrap_limit: the row cap left out of the wrapper.
wrap_no_limit(stmt, n) == "SELECT * FROM ( " \o stmt \o " ) AS _sub"

\* f"SELECT * FROM ( {stmt} ) AS _sub LIMIT {int(limit)}"
wrap_limit(stmt, n) == "SELECT * FROM ( " \o stmt \o " ) AS _sub LIMIT " \o IntStr(n)

\* A mutant of export_stmt: every limit that is given wraps, zero too.
export_stmt_wrapping_zero(sql, limit) ==
    LET s0 == Strip(sql)
        s1 == IF EndsWith(s0, ";") THEN SubSeq(s0, 1, Len(s0) - 1) ELSE s0
    IN IF limit # NoInt THEN wrap_limit(s1, limit[1]) ELSE s1

\* the statement export_query_tsv sends: stripped, one trailing ";" dropped,
\* wrapped when limit is a positive int
export_stmt(sql, limit) ==
    LET s0 == Strip(sql)
        s1 == IF EndsWith(s0, ";") THEN SubSeq(s0, 1, Len(s0) - 1) ELSE s0
    IN IF limit # NoInt /\ limit[1] > 0 THEN wrap_limit(s1, limit[1]) ELSE s1

\* export_query_tsv
export_query_tsv(self, files, sql, out_path, database, limit, resps) ==
    LET db == resolve_db(self, database)
        r == run_mysql(self.conn, export_stmt(sql, limit), db, TRUE, resps[1])
    IN IF ~Truthy(db) THEN Raise(self, files, "ValueError", "database is not set", <<>>)
       ELSE IF r.exc # NoExc THEN Raise(self, files, r.exc, r.msg, r.calls)
       ELSE Return(self,
                   WriteFile(MakeDirs(files, Or(Dirname(out_path), ".")), out_path, r.out),
                   out_path, r.calls)

\* (sql or "").strip().rstrip(";")
exec_sql_stmt(sql) == RStripSemi(Strip(Or(sql, "")))

\* A mutant of sql_rejection: the FOR UPDATE test left out.
sql_rejection_select_only(stmt) ==
    IF ~StartsWith(Upper(stmt), "SELECT") THEN "Only SELECT is allowed in exec_sql"
    ELSE ""

\* exec_sql's two tests of the upper-cased statement: the message of the
\* ValueError raised, "" when the statement passes
sql_rejection(stmt) ==
    IF ~StartsWith(Upper(stmt), "SELECT") THEN "Only SELECT is allowed in exec_sql"
    ELSE IF Contains(Upper(stmt), " FOR UPDATE") THEN "FOR UPDATE is not allowed"
    ELSE ""

\* the statement exec_sql sends for a statement that passed
exec_sql_sent(stmt, limit) ==
    IF ~Contains(Upper(stmt), " LIMIT ") THEN wrap_limit(stmt, limit) ELSE stmt

\* [ln.split("\t") for ln in lines]
RECURSIVE SplitRows(_)
SplitRows(xs) ==
    IF xs = <<>> THEN <<>> ELSE <<Split(Head(xs), "\t")>> \o SplitRows(Tail(xs))

\* exec_sql
exec_sql(self, files, sql, database, limit, resps) ==
    LET db == resolve_db(self, database)
        stmt == exec_sql_stmt(sql)
        r == run_mysql(self.conn, exec_sql_sent(stmt, limit), db, TRUE, resps[1])
        lines == NonBlankLines(SplitLines(r.out))
    IN IF ~Truthy(db) THEN Raise(self, files, "ValueError", "database is not set", <<>>)
       ELSE IF sql_rejection(stmt) # ""
       THEN Raise(self, files, "ValueError", sql_rejection(stmt), <<>>)
       ELSE IF r.exc # NoExc THEN Raise(self, files, r.exc, r.msg, r.calls)
       ELSE IF lines = <<>>
       THEN Return(self, files, [columns |-> <<>>, rows |-> <<>>, row_count |-> 0],
                   r.calls)
       ELSE Return(self, files,
                   [columns |-> Split(lines[1], "\t"),
                    rows |-> SplitRows(Tail(lines)),
                    row_count |-> Len(lines) - 1],
                   r.calls)

-----------------------------------------------------------------------------
(* Session files: json.dump(data, f, ensure_ascii=False, indent=2) and     *)
(* json.load, on the documents save_session writes                         *)

DQ == "\""

BS == "\\"

\* the body of a JSON string: the quote, the backslash, newline and tab escaped
RECURSIVE JsonEscape(_)
JsonEscape(s) ==
    IF s = "" THEN ""
    ELSE LET c == Char(s, 1)
         IN (IF c = DQ THEN BS \o DQ
             ELSE IF c = BS THEN BS \o BS
             ELSE IF c = "\n" THEN BS \o "n"
             ELSE IF c = "\t" THEN BS \o "t"
             ELSE c)
            \o JsonEscape(SubSeq(s, 2, Len(s)))

\* a str | None as JSON: null or a quoted string
JsonStr(x) == IF x = None THEN "null" ELSE DQ \o JsonEscape(x) \o DQ

\* the items of a non-empty list of strings, one per line at indent 4
RECURSIVE JsonItems(_)
JsonItems(xs) ==
    IF Len(xs) = 1 THEN "    " \o JsonStr(xs[1])
    ELSE "    " \o JsonStr(xs[1]) \o ",\n" \o JsonItems(Tail(xs))

\* a list of strings as the value of a member at indent 2
JsonList(xs) == IF xs = <<>> THEN "[]" ELSE "[\n" \o JsonItems(xs) \o "\n  ]"

\* A mutant of session_data: the password saved with the rest.
session_data_with_password(self) ==
    << <<"host", JsonStr(self.conn.host)>>,
       <<"port", IntStr(self.conn.port)>>,
       <<"user", JsonStr(self.conn.user)>>,
       <<"password", JsonStr(self.conn.password)>>,
       <<"database", JsonStr(self.conn.database)>>,
       <<"active_tables", JsonList(self.active_tables)>> >>

\* data = {"host": ..., "port": ..., "user": ..., "database": ...,
\* "active_tables": ...}: each member's name and its JSON text
session_data(self) ==
    << <<"host", JsonStr(self.conn.host)>>,
       <<"port", IntStr(self.conn.port)>>,
       <<"user", JsonStr(self.conn.user)>>,
       <<"database", JsonStr(self.conn.database)>>,
       <<"active_tables", JsonList(self.active_tables)>> >>

\* the members of a non-empty dict, one per line at indent 2
RECURSIVE JsonMembers(_)
JsonMembers(ms) ==
    IF Len(ms) = 1 THEN "  " \o DQ \o ms[1][1] \o DQ \o ": " \o ms[1][2]
    ELSE "  " \o DQ \o ms[1][1] \o DQ \o ": " \o ms[1][2] \o ",\n"
         \o JsonMembers(Tail(ms))

\* json.dump of a dict with indent=2
json_dump(ms) == IF ms = <<>> THEN "{}" ELSE "{\n" \o JsonMembers(ms) \o "\n}"

\* save_session: open(path, "w") fails when the directory does not exist
save_session(self, files, path) ==
    IF Dirname(path) # "" /\ Dirname(path) \notin files.dirs
    THEN Raise(self, files, "FileNotFoundError", path, <<>>)
    ELSE Return(self, WriteFile(files, path, json_dump(session_data(self))),
                [ok |-> TRUE, path |-> path], <<>>)

\* the text of a JSON string body, escapes undone
RECURSIVE JsonUnescape(_)
JsonUnescape(s) ==
    IF s = "" THEN ""
    ELSE IF Char(s, 1) = BS /\ Len(s) >= 2
    THEN (IF Char(s, 2) = "n" THEN "\n"
          ELSE IF Char(s, 2) = "t" THEN "\t"
          ELSE Char(s, 2))
         \o JsonUnescape(SubSeq(s, 3, Len(s)))
    ELSE Char(s, 1) \o JsonUnescape(SubSeq(s, 2, Len(s)))

\* a value json.load returns: kind is "null", "str", "num", "list" or "bad"
\* (text that is no JSON value)
JsonVal(kind, str, num, items) == [kind |-> kind, s |-> str, n |-> num, xs |-> items]

JsonBad == JsonVal("bad", "", 0, <<>>)

IsJsonStr(v) == Len(v) >= 2 /\ StartsWith(v, DQ) /\ EndsWith(v, DQ)

\* null, a string, an int or the empty list
ParseScalar(v) ==
    IF v = "null" THEN JsonVal("null", "", 0, <<>>)
    ELSE IF v = "[]" THEN JsonVal("list", "", 0, <<>>)
    ELSE IF IsJsonStr(v) THEN JsonVal("str", JsonUnescape(SubSeq(v, 2, Len(v) - 1)), 0, <<>>)
    ELSE IF IntOk(v) /\ Strip(v) = v /\ Char(v, 1) # "+" THEN JsonVal("num", "", IntVal(v), <<>>)
    ELSE JsonBad

DropComma(l) == IF EndsWith(l, ",") THEN SubSeq(l, 1, Len(l) - 1) ELSE l

\* the strings on the item lines i .. j of a list; "bad" when a line is none
RECURSIVE ParseItems(_, _, _)
ParseItems(lines, i, j) ==
    IF i > j THEN JsonVal("list", "", 0, <<>>)
    ELSE LET v == ParseScalar(DropComma(LStrip(lines[i])))
             rest == ParseItems(lines, i + 1, j)
         IN IF v.kind # "str" \/ rest.kind = "bad" THEN JsonBad
            ELSE JsonVal("list", "", 0, <<v.s>> \o rest.xs)

\* the first line at or after i that closes a list at indent 2, 0 if none
RECURSIVE ListEnd(_, _)
ListEnd(lines, i) ==
    IF i > Len(lines) THEN 0
    ELSE IF DropComma(lines[i]) = "  ]" THEN i ELSE ListEnd(lines, i + 1)

\* the members on lines i .. Len(lines) - 1 of a dict: <<key, value>> pairs
RECURSIVE ParseMembers(_, _)
ParseMembers(lines, i) ==
    IF i > Len(lines) - 1 THEN [ok |-> TRUE, members |-> <<>>]
    ELSE LET line == lines[i]
             k == IndexOf(line, DQ, 4)
             key == SubSeq(line, 4, k - 1)
             raw == SubSeq(line, k + 3, Len(line))
             j == ListEnd(lines, i + 1)
             val == IF raw = "[" THEN (IF j = 0 THEN JsonBad
                                       ELSE ParseItems(lines, i + 1, j - 1))
                    ELSE ParseScalar(DropComma(raw))
             rest == ParseMembers(lines, IF raw = "[" THEN j + 1 ELSE i + 1)
         IN IF ~StartsWith(line, "  " \o DQ) \/ k = 0 \/ Len(line) < k + 3
               \/ SubSeq(line, k + 1, k + 2) # ": " \/ val.kind = "bad"
            THEN [ok |-> FALSE, members |-> <<>>]
            ELSE IF ~rest.ok THEN rest
            ELSE [ok |-> TRUE, members |-> <<<<key, val>>>> \o rest.members]

\* json.load of a dict written with indent=2; ok is FALSE where json.load
\* raises JSONDecodeError
json_load(text) ==
    LET lines == Split(text, "\n")
    IN IF text = "{}" THEN [ok |-> TRUE, members |-> <<>>]
       ELSE IF Len(lines) < 3 \/ lines[1] # "{" \/ lines[Len(lines)] # "}"
       THEN [ok |-> FALSE, members |-> <<>>]
       ELSE ParseMembers(lines, 2)

HasKey(ms, key) == \E i \in 1..Len(ms) : ms[i][1] = key

\* the value of the last member named key
Member(ms, key) ==
    ms[CHOOSE i \in 1..Len(ms) :
          ms[i][1] = key /\ \A j \in (i + 1)..Len(ms) : ms[j][1] # key][2]

\* data.get(key, default) for a str | None field
GetStr(ms, key, default) ==
    IF ~HasKey(ms, key) THEN default
    ELSE IF Member(ms, key).kind = "null" THEN None ELSE Member(ms, key).s

\* data.get(key, default) for an int field
GetInt(ms, key, default) == IF HasKey(ms, key) THEN Member(ms, key).n ELSE default

\* data.get(key, default) for a list field
GetList(ms, key, default) == IF HasKey(ms, key) THEN Member(ms, key).xs ELSE default

\* A mutant of load_session: the saved selection is not put back.
load_session_keeping_selection(self, files, path) ==
    LET doc == json_load(files.files[path])
        data == doc.members
    IN IF path \notin DOMAIN files.files
       THEN Return(self, files,
                   [ok |-> FALSE, message |-> "session file not found: " \o path], <<>>)
       ELSE IF ~doc.ok THEN Raise(self, files, "JSONDecodeError", "", <<>>)
       ELSE Return([self EXCEPT
                       !.conn = MysqlConn(GetStr(data, "host", self.conn.host),
                                          GetInt(data, "port", self.conn.port),
                                          GetStr(data, "user", self.conn.user),
                                          self.conn.password,
                                          GetStr(data, "database", self.conn.database))],
                   files, [ok |-> TRUE, data |-> data], <<>>)

\* load_session: the file's fields are stored into self.conn (the password
\* is left as it is) and self.active_tables
load_session(self, files, path) ==
    LET doc == json_load(files.files[path])
        data == doc.members
    IN IF path \notin DOMAIN files.files
       THEN Return(self, files,
                   [ok |-> FALSE, message |-> "session file not found: " \o path], <<>>)
       ELSE IF ~doc.ok THEN Raise(self, files, "JSONDecodeError", "", <<>>)
       ELSE Return([self EXCEPT
                       !.conn = MysqlConn(GetStr(data, "host", self.conn.host),
                                          GetInt(data, "port", self.conn.port),
                                          GetStr(data, "user", self.conn.user),
                                          self.conn.password,
                                          GetStr(data, "database", self.conn.database)),
                       !.active_tables = GetList(data, "active_tables", <<>>)],
                   files, [ok |-> TRUE, data |-> data], <<>>)

-----------------------------------------------------------------------------
(* Inputs: the arguments the tools are called with and the answers of the  *)
(* mysql client.                                                           *)

\* the limit exec_sql applies by default
DefaultLimit == 2000

\* explicit limit arguments range over -1 .. MaxLimitArg
MaxLimitArg == 1

LimitArgs == (0 .. MaxLimitArg) \cup {DefaultLimit}

Passwords == {"pw1", "pw2"}

\* set_connection's arguments: complete connections that differ in one
\* field each, and connections with one required field empty
ConnInputs ==
    { MysqlConn("db1", 3306, "ro", pw, "shop") : pw \in Passwords }
    \cup { MysqlConn("db1", 3307, "ro", "pw1", "shop"),
           MysqlConn("db1", 3306, "ro", "pw1", None),
           MysqlConn("", 3306, "ro", "pw1", "shop"),
           MysqlConn("db1", 3306, "", "pw1", "shop"),
           MysqlConn("db1", 3306, "ro", "", "shop") }

DbArgs == {None, "shop"}

\* statements handed to exec_sql (None: the argument left to "sql or ''")
SqlInputs ==
    { "SELECT * FROM t",
      "UPDATE t SET x=1",
      "SELECT * FROM t FOR UPDATE",
      "  select id from t limit 5 ;",
      "SELECT * FROM t;;",
      "select * from t for update;",
      "SELECT a FROM t\nLIMIT 3",
      "DELETE FROM t",
      "SELECTED",
      "",
      None }

\* statements handed to export_query_tsv
ExportSqlInputs ==
    { "SELECT * FROM t",
      "UPDATE t SET x=1",
      " select 1 ; ",
      "DELETE FROM t;",
      "SELECT a FROM t LIMIT 3" }

ExportLimits == {NoInt} \cup { <<n>> : n \in 0..MaxLimitArg }

OutPaths == {"out.tsv", "exports/q1/out.tsv"}

TableArgs == {"users", "orders"}

\* what the client prints when it exits non-zero
ErrOut == "ERROR 1045 (28000): Access denied for user\n"

Fail == Resp(1, ErrOut)

Ok(out) == Resp(0, out)

\* a result set of three rows under a header
RowsOut == "id\tname\n1\tann\n2\tbob\n3\tcy\n"

QueryResps == { <<Ok(RowsOut)>>, <<Ok("")>>, <<Fail>> }

TablesOut == "orders\nusers\n"

ColsOut ==
    "orders\tid\tPRI\tint\tNO\norders\tuser_id\tMUL\tint\tNO\n"
    \o "users\tid\tPRI\tint\tNO\nusers\tname\t\tvarchar\tYES\n"

FksOut == "orders\tuser_id\tusers\tid\n"

\* the answers to the three catalog queries of one introspection
IntrospectResps ==
    { <<Ok(TablesOut), Ok(ColsOut), Ok(FksOut)>>,
      <<Fail, Fail, Fail>>,
      <<Ok(TablesOut), Fail, Fail>>,
      <<Ok(TablesOut), Ok(ColsOut), Fail>> }

\* the answers to COUNT(*) and to the information_schema fallback
CountResps ==
    { <<a, b>> : a \in {Ok("n\n42\n"), Ok("n\nNULL\n"), Ok(""), Fail},
                 b \in {Ok("40\n"), Ok(""), Fail} }

PatternArgs == {"user%", "%r%s", "x"}

KeywordArgs == {<<"user">>, <<"ID", "order">>}

-----------------------------------------------------------------------------
(* The toolkit's tools as actions *)

Self == Toolkit(conn, schema_cache, active_tables)

\* the statement of a client invocation (the argument after -e)
StatementOf(call) ==
    call.args[(CHOOSE i \in 1..Len(call.args) : call.args[i] = "-e") + 1]

\* the databases whose three catalog queries all exited 0 among calls
IntrospectedBy(calls) ==
    IF Len(calls) = 3 /\ \A i \in 1..3 : calls[i].exit = 0
    THEN { d \in {"shop", "crm"} : StatementOf(calls[1]) = sql_tables(d) }
    ELSE {}

\* the history after a tool call that made the invocations calls
Observe(h, calls) ==
    [d \in DOMAIN h \cup IntrospectedBy(calls) |->
        IF d \in IntrospectedBy(calls)
        THEN [latest |-> <<calls[1].output, calls[2].output, calls[3].output>>,
              ever |-> (IF d \in DOMAIN h THEN h[d].ever ELSE {})
                       \cup { StrippedNonBlank(SplitLines(calls[1].output))[i] :
                                i \in 1..Len(StrippedNonBlank(SplitLines(calls[1].output))) }]
        ELSE h[d]]

\* the fields of the toolkit that save_session is handed
SessionFields(self) ==
    [host |-> self.conn.host, port |-> self.conn.port, user |-> self.conn.user,
     database |-> self.conn.database, active_tables |-> self.active_tables]

\* the history after the call op(args) made by toolkit self over the files
\* before, with outcome o: a path stays while its text stays
ObserveSaved(h, self, before, op, args, o) ==
    LET kept == { p \in DOMAIN h : /\ p \in DOMAIN o.files.files
                                   /\ o.files.files[p] = before.files[p] }
        wrote == IF op = "save_session" /\ o.exc = NoExc THEN {args.path} ELSE {}
    IN [p \in kept \cup wrote |-> IF p \in wrote THEN SessionFields(self) ELSE h[p]]

\* no message has come in
NoMessage == [message |-> None, answers |-> <<>>, original |-> 0, odd |-> FALSE]

\* no SimpleAgent has been constructed
NoAgent == [exists |-> FALSE]

\* A tool is called when no result is pending (one tool call at a time);
\* the state after the call with outcome o, and the record of the call.
Called(op, args, o) ==
    /\ last.op = "idle"
    /\ conn' = o.self.conn
    /\ schema_cache' = o.self.schema_cache
    /\ active_tables' = o.self.active_tables
    /\ fs' = o.files
    /\ last' = [op |-> op, args |-> args, exc |-> o.exc, msg |-> o.msg,
                ret |-> o.ret, calls |-> o.calls, fs_before |-> fs,
                guard |-> "none"]
    /\ introspected' = Observe(introspected, o.calls)
    /\ saved' = ObserveSaved(saved, Self, fs, op, args, o)
    /\ UNCHANGED session_vars

NoCall ==
    [op |-> "idle", args |-> <<>>, exc |-> NoExc, msg |-> "", ret |-> None,
     calls |-> <<>>, fs_before |-> NoFiles, guard |-> "none"]

SetConnection ==
    \E c \in ConnInputs, resps \in {<<Ok("1\n")>>, <<Fail>>} :
        /\ Called("set_connection", [conn |-> c],
                  set_connection(Self, fs, c.host, c.port, c.user, c.password,
                                 c.database, resps))
        /\ UNCHANGED guard_vars

ListDatabases ==
    \E ex \in BOOLEAN, resps \in {<<Ok("information_schema\nshop\n")>>, <<Fail>>} :
        /\ Called("list_databases", [exclude_system |-> ex],
                  list_databases(Self, fs, ex, resps))
        /\ UNCHANGED guard_vars

PickCandidateDatabases ==
    \E k \in 1..MaxLimitArg,
       resps \in {<<Ok("shop\t2\nmysql\t30\n")>>, <<Ok("shop\tmany\n")>>, <<Fail>>} :
        /\ Called("pick_candidate_databases", [top_k |-> k],
                  pick_candidate_databases(Self, fs, k, resps))
        /\ UNCHANGED guard_vars

IntrospectSchema ==
    \E d \in DbArgs, resps \in IntrospectResps :
        /\ Called("introspect_schema", [database |-> d],
                  introspect_schema(Self, fs, d, resps))
        /\ UNCHANGED guard_vars

GenerateErMermaid ==
    \E d \in DbArgs, ts \in {<<>>, <<"users">>}, resps \in IntrospectResps :
        /\ Called("generate_er_mermaid", [database |-> d, tables |-> ts],
                  generate_er_mermaid(Self, fs, d, ts, resps))
        /\ UNCHANGED guard_vars

ListTables ==
    \E d \in DbArgs, resps \in IntrospectResps :
        /\ Called("list_tables", [database |-> d], list_tables(Self, fs, d, resps))
        /\ UNCHANGED guard_vars

ListTablesLike ==
    \E pat \in PatternArgs, d \in DbArgs, resps \in IntrospectResps :
        /\ Called("list_tables_like", [pattern |-> pat, database |-> d],
                  list_tables_like(Self, fs, pat, d, resps))
        /\ UNCHANGED guard_vars

ListTablesDetailed ==
    \E d \in DbArgs,
       resps \in {<<Ok("orders\t12\nusers\tNULL\n")>>, <<Fail>>} :
        /\ Called("list_tables_detailed", [database |-> d],
                  list_tables_detailed(Self, fs, d, resps))
        /\ UNCHANGED guard_vars

ShowCreateTable ==
    \E t \in TableArgs, d \in DbArgs,
       resps \in {<<Ok("Table\tCreate Table\nusers\tCREATE TABLE users\n")>>, <<Fail>>} :
        /\ Called("show_create_table", [table |-> t, database |-> d],
                  show_create_table(Self, fs, t, d, resps))
        /\ UNCHANGED guard_vars

ShowIndexes ==
    \E t \in TableArgs, d \in DbArgs,
       resps \in {<<Ok("Table\tKey_name\nusers\tPRIMARY\n")>>, <<Fail>>} :
        /\ Called("show_indexes", [table |-> t, database |-> d],
                  show_indexes(Self, fs, t, d, resps))
        /\ UNCHANGED guard_vars

GetTableRowCount ==
    \E t \in TableArgs, d \in DbArgs, resps \in CountResps :
        /\ Called("get_table_row_count", [table |-> t, database |-> d],
                  get_table_row_count(Self, fs, t, d, resps))
        /\ UNCHANGED guard_vars

FindSemanticTables ==
    \E kws \in KeywordArgs, d \in DbArgs, k \in 1..MaxLimitArg,
       resps \in IntrospectResps :
        /\ Called("find_semantic_tables",
                  [keywords |-> kws, database |-> d, top_k |-> k],
                  find_semantic_tables(Self, fs, kws, d, k, resps))
        /\ UNCHANGED guard_vars

ExportQueryTsv ==
    \E sql \in ExportSqlInputs, path \in OutPaths, d \in DbArgs,
       lim \in ExportLimits, resps \in {<<Ok(RowsOut)>>, <<Fail>>} :
        /\ Called("export_query_tsv",
                  [sql |-> sql, out_path |-> path, database |-> d, limit |-> lim],
                  export_query_tsv(Self, fs, sql, path, d, lim, resps))
        /\ UNCHANGED guard_vars

ExecSql ==
    \E sql \in SqlInputs, d \in DbArgs, lim \in LimitArgs, resps \in QueryResps :
        /\ Called("exec_sql", [sql |-> sql, database |-> d, limit |-> lim],
                  exec_sql(Self, fs, sql, d, lim, resps))
        /\ UNCHANGED guard_vars

\* the agent has taken the result of the tool call
ToolReturn ==
    /\ last.op # "idle"
    /\ asking = <<>>
    /\ last' = NoCall
    /\ UNCHANGED tk_vars
    /\ UNCHANGED guard_vars
    /\ UNCHANGED <<introspected, saved>>
    /\ UNCHANGED session_vars

\* the state after MysqlSchemaToolkit() is constructed, no launcher wired
Init ==
    /\ conn = NewToolkit.conn
    /\ schema_cache = NewToolkit.schema_cache
    /\ active_tables = NewToolkit.active_tables
    /\ fs = NoFiles
    /\ last = NoCall
    /\ launcher = "none"
    /\ observed_db_read = FALSE
    /\ er_required = FALSE
    /\ er_confirmed = FALSE
    /\ last_ask_question = ""
    /\ pending_ask = FALSE
    /\ pending_ask_id = None
    /\ events = <<>>
    /\ asking = <<>>
    /\ next_ask_id = 0
    /\ read_since_reset = FALSE
    /\ er_unconfirmed = FALSE
    /\ introspected = [d \in {} |-> {}]
    /\ saved = [p \in {} |-> {}]
    /\ handled = NoMessage
    /\ agent = NoAgent

Next ==
    \/ SetConnection
    \/ ListDatabases
    \/ PickCandidateDatabases
    \/ IntrospectSchema
    \/ GenerateErMermaid
    \/ ListTables
    \/ ListTablesLike
    \/ ListTablesDetailed
    \/ ShowCreateTable
    \/ ShowIndexes
    \/ GetTableRowCount
    \/ FindSemanticTables
    \/ ExportQueryTsv
    \/ ExecSql
    \/ ToolReturn

Spec == Init /\ [][Next]_vars

-----------------------------------------------------------------------------
(* Properties of the query path, checked under Spec *)

\* the argument that follows flag in an argument vector
ArgAfter(args, flag) == args[(CHOOSE i \in 1..(Len(args) - 1) : args[i] = flag) + 1]

HasFlag(args, flag) == \E i \in 1..Len(args) : args[i] = flag

\* the call's database argument or the stored default is set
DbResolvable == Truthy(last.args.database) \/ Truthy(conn.database)

ConnComplete == conn.host # "" /\ conn.user # "" /\ conn.password # ""

\* the statement as exec_sql examines it: trimmed, trailing semicolons
\* dropped, upper-cased
ExaminedSql == Upper(RStripSemi(Strip(Or(last.args.sql, ""))))

SqlDisallowed ==
    ~StartsWith(ExaminedSql, "SELECT") \/ Contains(ExaminedSql, " FOR UPDATE")

SqlValidationMsgs == {"Only SELECT is allowed in exec_sql", "FOR UPDATE is not allowed"}

\* C1: exec_sql with a resolvable database raises a validation error and
\* invokes the client not at all when the examined statement does not start
\* with SELECT or contains " FOR UPDATE"; "UPDATE t SET x=1" and
\* "SELECT * FROM t FOR UPDATE" are rejected; "SELECT * FROM t" passes the
\* validation and, the connection being complete, is sent in one invocation.
ExecSqlSelectOnly ==
    (last.op = "exec_sql" /\ DbResolvable) =>
        /\ SqlDisallowed =>
              /\ last.exc = "ValueError"
              /\ last.msg \in SqlValidationMsgs
              /\ last.calls = <<>>
        /\ last.args.sql \in {"UPDATE t SET x=1", "SELECT * FROM t FOR UPDATE"} =>
              last.exc = "ValueError" /\ last.calls = <<>>
        /\ last.args.sql = "SELECT * FROM t" =>
              /\ last.msg \notin SqlValidationMsgs
              /\ ConnComplete =>
                    /\ Len(last.calls) = 1
                    /\ Contains(ArgAfter(last.calls[1].args, "-e"), "SELECT * FROM t")

\* C1 witness: a FOR UPDATE statement was rejected on a complete connection
ExecSqlRejectedForUpdate ==
    /\ last.op = "exec_sql"
    /\ last.args.sql = "select * from t for update;"
    /\ DbResolvable
    /\ ConnComplete
    /\ last.exc = "ValueError"
    /\ last.calls = <<>>

\* C2 (the claim as stated): export_query_tsv with a resolvable database and
\* a source statement that does not start with SELECT fails with a
\* validation error, invokes the client not at all and writes no file.
ExportSelectOnly ==
    (/\ last.op = "export_query_tsv"
     /\ DbResolvable
     /\ ~StartsWith(Upper(Strip(last.args.sql)), "SELECT")) =>
        /\ last.exc = "ValueError"
        /\ last.calls = <<>>
        /\ fs = last.fs_before

\* the operation stopped at invocation i with a runtime error that carries
\* the output captured from it
FailedAt(i) ==
    /\ i = Len(last.calls)
    /\ last.exc = "RuntimeError"
    /\ last.msg = "mysql CLI failed: " \o last.calls[i].output

\* C7 (the claim as stated): whenever an invocation exits non-zero, the
\* operation fails there with a runtime error carrying the captured output
\* and makes no further invocation.
NoInvocationAfterFailure ==
    \A i \in 1..Len(last.calls) : last.calls[i].exit # 0 => FailedAt(i)

\* C7 (amended): the same for every operation but get_table_row_count;
\* get_table_row_count, when its COUNT(*) invocation exits non-zero, makes
\* exactly one further invocation, the information_schema query, and fails
\* with the runtime error carrying that one's output when it exits non-zero
\* too; it never makes a third invocation.
NoInvocationAfterFailureButRowCount ==
    /\ last.op # "get_table_row_count" => NoInvocationAfterFailure
    /\ last.op = "get_table_row_count" =>
          /\ Len(last.calls) <= 2
          /\ (Len(last.calls) >= 1 /\ last.calls[1].exit # 0) =>
                /\ Len(last.calls) = 2
                /\ Contains(ArgAfter(last.calls[2].args, "-e"),
                            "SELECT table_rows FROM information_schema.tables")
          /\ (Len(last.calls) = 2 /\ last.calls[2].exit # 0) => FailedAt(2)

\* C7 witness: both invocations of get_table_row_count exited non-zero
RowCountFallbackFailed ==
    /\ last.op = "get_table_row_count"
    /\ Len(last.calls) = 2
    /\ last.calls[1].exit # 0
    /\ last.calls[2].exit # 0
    /\ last.exc = "RuntimeError"

\* the word LIMIT set off by white space on both sides
HasLimitClause(s) ==
    \E i \in 2..(Len(s) - 6) :
        /\ IsSpace(Char(s, i - 1))
        /\ SubSeq(s, i, i + 4) = "LIMIT"
        /\ IsSpace(Char(s, i + 5))

\* the statement exec_sql works on: trimmed, trailing semicolons dropped
TrimmedSql == RStripSemi(Strip(Or(last.args.sql, "")))

SentSql == ArgAfter(last.calls[1].args, "-e")

WrappedSql ==
    "SELECT * FROM ( " \o TrimmedSql \o " ) AS _sub LIMIT " \o IntStr(last.args.limit)

\* C8 (the claim as stated): the statement sent is the trimmed statement
\* unchanged when it textually contains a LIMIT clause, otherwise the
\* statement wrapped with LIMIT n; every statement sent contains a LIMIT.
ExecSqlWrapsUnlessLimitClause ==
    (last.op = "exec_sql" /\ Len(last.calls) = 1) =>
        /\ SentSql = IF HasLimitClause(Upper(TrimmedSql)) THEN TrimmedSql ELSE WrappedSql
        /\ Contains(Upper(SentSql), "LIMIT")

\* C8 (amended): the statement sent is the trimmed statement unchanged when
\* its upper-cased text contains " LIMIT " (a space on each side), otherwise
\* the statement wrapped with LIMIT n (2000 by default), also when a LIMIT
\* clause is set off by a newline or a tab; every statement sent contains
\* " LIMIT ".
ExecSqlWrapsUnlessLimitSubstring ==
    (last.op = "exec_sql" /\ Len(last.calls) = 1) =>
        /\ SentSql = IF Contains(Upper(TrimmedSql), " LIMIT ")
                     THEN TrimmedSql ELSE WrappedSql
        /\ Contains(Upper(SentSql), " LIMIT ")
        /\ (last.args.sql = "SELECT * FROM t" /\ last.args.limit = DefaultLimit) =>
              SentSql = "SELECT * FROM ( SELECT * FROM t ) AS _sub LIMIT 2000"
        /\ last.args.sql = "  select id from t limit 5 ;" =>
              SentSql = "select id from t limit 5 "

\* C8 witness: a statement whose LIMIT clause follows a newline was sent wrapped
ExecSqlWrappedNewlineLimit ==
    /\ last.op = "exec_sql"
    /\ last.args.sql = "SELECT a FROM t\nLIMIT 3"
    /\ last.args.limit = DefaultLimit
    /\ Len(last.calls) = 1
    /\ SentSql = "SELECT * FROM ( SELECT a FROM t\nLIMIT 3 ) AS _sub LIMIT 2000"

ConnIncomplete == conn.host = "" \/ conn.user = "" \/ conn.password = ""

\* the tools that answer from the schema cache when the database is cached
CacheReaders ==
    {"generate_er_mermaid", "list_tables", "list_tables_like", "find_semantic_tables"}

\* C9: while host, user or password of the stored connection is empty, no
\* tool call invokes the client, and every tool call fails with a
\* validation error, except a cache reader answering from the cache (which
\* runs no query).
IncompleteConnRunsNothing ==
    (last.op # "idle" /\ ConnIncomplete) =>
        /\ last.calls = <<>>
        /\ \/ last.exc = "ValueError"
           \/ /\ last.exc = NoExc
              /\ last.op \in CacheReaders
              /\ Or(last.args.database, conn.database) \in DOMAIN schema_cache

\* C9 witness: a valid SELECT was refused because only the password is empty
ExecSqlRefusedWithoutPassword ==
    /\ last.op = "exec_sql"
    /\ last.args.sql = "SELECT * FROM t"
    /\ DbResolvable
    /\ conn.host # "" /\ conn.user # "" /\ conn.password = ""
    /\ last.exc = "ValueError"
    /\ last.calls = <<>>

FixedArgs == {"mysql", "-h", "-P", "-u", "-N", "-B", "-e", "-D"}

\* C10: every invocation's argument vector consists of the fixed flags,
\* host, port, user, the SQL text and the database; no argument contains
\* the password, which is in MYSQL_PWD; the vector is the same whatever the
\* password of the connection is.
PasswordOnlyInEnvironment ==
    \A i \in 1..Len(last.calls) :
        LET call == last.calls[i]
            sql == ArgAfter(call.args, "-e")
            db == IF HasFlag(call.args, "-D") THEN ArgAfter(call.args, "-D") ELSE None
        IN /\ call.MYSQL_PWD = conn.password
           /\ \A j \in 1..Len(call.args) :
                 /\ ~Contains(call.args[j], conn.password)
                 /\ call.args[j] \in FixedArgs \cup
                        {conn.host, IntStr(conn.port), conn.user, sql, db}
           /\ SubSeq(call.args, 1, 7) =
                 <<"mysql", "-h", conn.host, "-P",
                   IF conn.port = 3306 THEN "3306" ELSE "3307", "-u", conn.user>>
           /\ \A pw \in Passwords :
                 mysql_args([conn EXCEPT !.password = pw], sql, db,
                            ~HasFlag(call.args, "-N")) = call.args

\* C10 witness: a query was sent on the connection whose password is "pw2"
QuerySentWithSecondPassword ==
    /\ last.op = "exec_sql"
    /\ Len(last.calls) = 1
    /\ conn.password = "pw2"
    /\ last.calls[1].MYSQL_PWD = "pw2"

-----------------------------------------------------------------------------
(* The launchers.  _patched_worker_build replaces the worker's tools by    *)
(* guarded ones that read and set three flags of the WebSocket handler; an *)
(* attribute that was never set reads as False (getattr's default).        *)

Handler(observed, required, confirmed) ==
    [observed_db_read |-> observed, er_required |-> required,
     er_confirmed |-> confirmed]

\* getattr(self, "_er_required", False) and not getattr(self, "_er_confirmed", False)
er_blocked(h) == h.er_required /\ ~h.er_confirmed

\* the structured refusal a guard returns
Refusal(message, error) ==
    [success |-> FALSE, status |-> FALSE, message |-> message, error |-> error,
     files |-> <<>>]

\* what a guarded tool did: the handler flags afterwards, the outcome, and
\* whether the wrapped tool was invoked ("passed") or not ("refused")
Guarded(h, o, guard) == [h |-> h, o |-> o, guard |-> guard]

\* A mutant of exec_sql_guarded: the read is recorded before the wrapped
\* exec_sql has returned.
exec_sql_guarded_records_first(h, self, files, sql, database, limit, resps) ==
    IF er_blocked(h)
    THEN Guarded(h,
                 Return(self, files,
                        Refusal("Guard: ER change detected. Please confirm the ER diagram before reading data.",
                                "GUARD_ER_CONFIRM_REQUIRED"), <<>>),
                 "refused")
    ELSE Guarded([h EXCEPT !.observed_db_read = TRUE],
                 exec_sql(self, files, sql, database, limit, resps), "passed")

\* _exec_sql_guarded (the same in both launchers)
exec_sql_guarded(h, self, files, sql, database, limit, resps) ==
    LET o == exec_sql(self, files, sql, database, limit, resps)
    IN IF er_blocked(h)
       THEN Guarded(h,
                    Return(self, files,
                           Refusal("Guard: ER change detected. Please confirm the ER diagram before reading data.",
                                   "GUARD_ER_CONFIRM_REQUIRED"), <<>>),
                    "refused")
       ELSE Guarded(IF o.exc = NoExc THEN [h EXCEPT !.observed_db_read = TRUE] ELSE h,
                    o, "passed")

\* A mutant of export_guarded_clean: the read is recorded although the
\* export raised.
export_guarded_clean_records_raise(h, self, files, sql, out_path, database, limit, resps) ==
    Guarded([h EXCEPT !.observed_db_read = TRUE],
            export_query_tsv(self, files, sql, out_path, database, limit, resps),
            "passed")

\* _export_guarded of run_webui_clean: no test of the ER flags
export_guarded_clean(h, self, files, sql, out_path, database, limit, resps) ==
    LET o == export_query_tsv(self, files, sql, out_path, database, limit, resps)
    IN Guarded(IF o.exc = NoExc THEN [h EXCEPT !.observed_db_read = TRUE] ELSE h,
               o, "passed")

\* A mutant of export_guarded_agents: the ER flags are not tested.
export_guarded_agents_unchecked(h, self, files, sql, out_path, database, limit, resps) ==
    LET o == export_query_tsv(self, files, sql, out_path, database, limit, resps)
    IN Guarded(IF o.exc = NoExc THEN [h EXCEPT !.observed_db_read = TRUE] ELSE h,
               o, "passed")

\* _export_guarded of run_webui_agents
export_guarded_agents(h, self, files, sql, out_path, database, limit, resps) ==
    LET o == export_query_tsv(self, files, sql, out_path, database, limit, resps)
    IN IF er_blocked(h)
       THEN Guarded(h,
                    Return(self, files,
                           Refusal("Guard: ER change detected. Please confirm the ER diagram before exporting data.",
                                   "GUARD_ER_CONFIRM_REQUIRED"), <<>>),
                    "refused")
       ELSE Guarded(IF o.exc = NoExc THEN [h EXCEPT !.observed_db_read = TRUE] ELSE h,
                    o, "passed")

\* the export_query_tsv the launcher L leaves on the toolkit
export_guarded(L, h, self, files, sql, out_path, database, limit, resps) ==
    IF L = "agents"
    THEN export_guarded_agents(h, self, files, sql, out_path, database, limit, resps)
    ELSE export_guarded_clean(h, self, files, sql, out_path, database, limit, resps)

\* A mutant of er_guarded: an earlier confirmation is kept.
er_guarded_keeping_confirmed(h, self, files, database, tables, resps) ==
    Guarded(Handler(FALSE, TRUE, h.er_confirmed),
            generate_er_mermaid(self, files, database, tables, resps), "passed")

\* _er_guarded (the same in both launchers): the flags are set, then the
\* wrapped generate_er_mermaid runs
er_guarded(h, self, files, database, tables, resps) ==
    Guarded(Handler(FALSE, TRUE, FALSE),
            generate_er_mermaid(self, files, database, tables, resps), "passed")

\* _sat_guarded (the same in both launchers)
sat_guarded(h, self, files, tables) ==
    Guarded(Handler(FALSE, TRUE, FALSE), set_active_tables(self, files, tables),
            "passed")

\* _exec_py_guarded (the same in both launchers); result is what the
\* wrapped execute_python_code of the python_executor toolkit returns
exec_py_guarded(h, self, files, code, timeout, result) ==
    IF er_blocked(h)
    THEN Guarded(h,
                 Return(self, files,
                        Refusal("Guard: ER change detected. Please confirm the ER diagram before executing Python.",
                                "GUARD_ER_CONFIRM_REQUIRED"), <<>>),
                 "refused")
    ELSE IF ~h.observed_db_read
    THEN Guarded(h,
                 Return(self, files,
                        Refusal("Guard: A real DB read is required before executing Python. Please call mysql_schema.exec_sql or export_query_tsv first.",
                                "GUARD_DB_REQUIRED"), <<>>),
                 "refused")
    ELSE Guarded(h, Return(self, files, result, <<>>), "passed")

\* the keywords that make a question an ER confirmation; the Chinese words of
\* the source are written in pinyin between angle brackets (tu: diagram,
\* queren: confirm, guanxitu: relationship diagram)
ErKeywords == {"ER", "ER<tu>", "ER diagram", "<queren>ER", "<guanxitu>"}

\* A mutant of is_er_question: the question has to be a keyword, not to
\* hold one.
is_er_question_exact(q) == q \in ErKeywords

\* any(key in q for key in [...])
is_er_question(q) == ContainsAny(q, ErKeywords)

\* the parameters of the ask_user the wrapper calls: (self, question)
AskUserParams == <<"self", "question">>

\* the positional arguments the ER wrapper calls the wrapped ask_user with:
\* run_webui_agents calls _orig_ask_for_er(question), a plain function taken
\* from the class, without the handler; run_webui_clean calls
\* _orig_ask_user(self, question)
wrapped_ask_args(L, question) ==
    IF L = "agents" THEN <<question>> ELSE <<"self", question>>

\* a Python call binds when every parameter gets an argument; otherwise it
\* raises TypeError before the function body runs
Binds(params, args) == Len(args) = Len(params)

\* str(uuid.uuid4()): a fresh id, the n-th one drawn
AskId(n) == "ask-" \o IntStr(n)

\* Event(type="ask", data=AskContent(type="ask", question=..., ask_id=...))
AskEvent(question, ask_id) == [type |-> "ask", question |-> question, ask_id |-> ask_id]

-----------------------------------------------------------------------------
(* A guarded session: the tools of a worker whose build was patched *)

\* at most MaxAsks ask_user calls are made in a session
MaxAsks == 2

H == Handler(observed_db_read, er_required, er_confirmed)

GuardConn == MysqlConn("db1", 3306, "ro", "pw1", "shop")

GuardSqlInputs == {"SELECT * FROM t", "UPDATE t SET x=1"}

GuardResps == {<<Ok(RowsOut)>>, <<Fail>>}

Questions == {"Please confirm the ER diagram", "Which database should I use?"}

Answers == {"yes", "no, drop the orders table"}

\* what the wrapped execute_python_code returns
PyResults == {[success |-> TRUE, status |-> TRUE, message |-> "ok", error |-> "",
               files |-> <<>>]}

\* the state after a guarded tool call g, and the record of the call
GuardedCalled(op, args, g) ==
    /\ last.op = "idle"
    /\ conn' = g.o.self.conn
    /\ schema_cache' = g.o.self.schema_cache
    /\ active_tables' = g.o.self.active_tables
    /\ fs' = g.o.files
    /\ observed_db_read' = g.h.observed_db_read
    /\ er_required' = g.h.er_required
    /\ er_confirmed' = g.h.er_confirmed
    /\ last' = [op |-> op, args |-> args, exc |-> g.o.exc, msg |-> g.o.msg,
                ret |-> g.o.ret, calls |-> g.o.calls, fs_before |-> fs,
                guard |-> g.guard]
    /\ introspected' = Observe(introspected, g.o.calls)
    /\ saved' = ObserveSaved(saved, Self, fs, op, args, g.o)
    /\ UNCHANGED session_vars
    /\ UNCHANGED <<launcher, last_ask_question, pending_ask, pending_ask_id,
                   events, asking, next_ask_id>>

\* set_connection is not wrapped
GSetConnection ==
    \E resps \in {<<Ok("1\n")>>, <<Fail>>} :
        /\ GuardedCalled("set_connection", [conn |-> GuardConn],
                         Guarded(H, set_connection(Self, fs, GuardConn.host,
                                                   GuardConn.port, GuardConn.user,
                                                   GuardConn.password,
                                                   GuardConn.database, resps),
                                 "none"))
        /\ UNCHANGED <<read_since_reset, er_unconfirmed>>

GExecSql ==
    \E sql \in GuardSqlInputs, resps \in GuardResps :
        LET g == exec_sql_guarded(H, Self, fs, sql, None, DefaultLimit, resps)
        IN /\ GuardedCalled("exec_sql",
                            [sql |-> sql, database |-> None, limit |-> DefaultLimit], g)
           /\ read_since_reset' =
                 (read_since_reset \/ (g.guard = "passed" /\ g.o.exc = NoExc))
           /\ UNCHANGED er_unconfirmed

GExportQueryTsv ==
    \E sql \in GuardSqlInputs, resps \in GuardResps :
        LET g == export_guarded(launcher, H, Self, fs, sql, "out.tsv", None, NoInt, resps)
        IN /\ GuardedCalled("export_query_tsv",
                            [sql |-> sql, out_path |-> "out.tsv", database |-> None,
                             limit |-> NoInt], g)
           /\ read_since_reset' =
                 (read_since_reset \/ (g.guard = "passed" /\ g.o.exc = NoExc))
           /\ UNCHANGED er_unconfirmed

GGenerateErMermaid ==
    \E resps \in {<<Ok(TablesOut), Ok(ColsOut), Ok(FksOut)>>, <<Fail, Fail, Fail>>} :
        /\ GuardedCalled("generate_er_mermaid", [database |-> None, tables |-> <<>>],
                         er_guarded(H, Self, fs, None, <<>>, resps))
        /\ read_since_reset' = FALSE
        /\ er_unconfirmed' = TRUE

GSetActiveTables ==
    \E ts \in {<<>>, <<"users">>} :
        /\ GuardedCalled("set_active_tables", [tables |-> ts],
                         sat_guarded(H, Self, fs, ts))
        /\ read_since_reset' = FALSE
        /\ er_unconfirmed' = TRUE

GExecutePythonCode ==
    \E result \in PyResults :
        /\ GuardedCalled("execute_python_code", [code |-> "print(1)", timeout |-> 30],
                         exec_py_guarded(H, Self, fs, "print(1)", 30, result))
        /\ UNCHANGED <<read_since_reset, er_unconfirmed>>

\* the record of an ask_user call
AskCall(question, exc, msg, ret, guard) ==
    [op |-> "ask_user", args |-> [question |-> question], exc |-> exc, msg |-> msg,
     ret |-> ret, calls |-> <<>>, fs_before |-> fs, guard |-> guard]

\* handler.ask_user(question), up to the point where it awaits the answer:
\* the ER wrapper stores the question and calls the wrapped ask_user, which
\* (when the call binds) draws an ask id, marks the ask pending
\* (run_webui_agents' _patched_ask_user only), sends the ask event and waits
AskUser ==
    \E q \in Questions :
        /\ last.op = "idle"
        /\ next_ask_id < MaxAsks
        /\ last_ask_question' = Or(q, "")
        /\ IF Binds(AskUserParams, wrapped_ask_args(launcher, q))
           THEN /\ next_ask_id' = next_ask_id + 1
                /\ pending_ask' = IF launcher = "agents" THEN TRUE ELSE pending_ask
                /\ pending_ask_id' =
                      IF launcher = "agents" THEN AskId(next_ask_id + 1)
                      ELSE pending_ask_id
                /\ events' = Append(events, AskEvent(q, AskId(next_ask_id + 1)))
                /\ asking' = <<[ask_id |-> AskId(next_ask_id + 1), question |-> q]>>
                /\ last' = AskCall(q, NoExc, "", None, "waiting")
           ELSE /\ last' = AskCall(q, "TypeError",
                                   "_patched_ask_user() missing 1 required positional argument: 'question'",
                                   None, "raised")
                /\ UNCHANGED <<next_ask_id, pending_ask, pending_ask_id, events, asking>>
        /\ UNCHANGED tk_vars
        /\ UNCHANGED <<launcher, observed_db_read, er_required, er_confirmed,
                       read_since_reset, er_unconfirmed, introspected, saved,
                       handled, agent>>

\* the answer to the pending ask arrives: the wrapped ask_user returns its
\* text, and the ER wrapper records the confirmation when the question it
\* stored holds an ER keyword
AnswerAsk ==
    \E a \in Answers :
        /\ asking # <<>>
        /\ asking' = <<>>
        /\ pending_ask' = IF launcher = "agents" THEN FALSE ELSE pending_ask
        /\ pending_ask_id' = IF launcher = "agents" THEN None ELSE pending_ask_id
        /\ er_required' = IF is_er_question(last_ask_question) THEN FALSE ELSE er_required
        /\ er_confirmed' = IF is_er_question(last_ask_question) THEN TRUE ELSE er_confirmed
        /\ er_unconfirmed' =
              IF is_er_question(last_ask_question) THEN FALSE ELSE er_unconfirmed
        /\ last' = AskCall(asking[1].question, NoExc, "", a, "answered")
        /\ UNCHANGED tk_vars
        /\ UNCHANGED <<launcher, observed_db_read, last_ask_question, events,
                       next_ask_id, read_since_reset, introspected, saved,
                       handled, agent>>

\* a session of either launcher, its worker built and no tool called yet
InitGuard ==
    /\ conn = NewToolkit.conn
    /\ schema_cache = NewToolkit.schema_cache
    /\ active_tables = NewToolkit.active_tables
    /\ fs = NoFiles
    /\ last = NoCall
    /\ launcher \in {"agents", "clean"}
    /\ observed_db_read = FALSE
    /\ er_required = FALSE
    /\ er_confirmed = FALSE
    /\ last_ask_question = ""
    /\ pending_ask = FALSE
    /\ pending_ask_id = None
    /\ events = <<>>
    /\ asking = <<>>
    /\ next_ask_id = 0
    /\ read_since_reset = FALSE
    /\ er_unconfirmed = FALSE
    /\ introspected = [d \in {} |-> {}]
    /\ saved = [p \in {} |-> {}]
    /\ handled = NoMessage
    /\ agent = NoAgent

NextGuard ==
    \/ GSetConnection
    \/ GExecSql
    \/ GExportQueryTsv
    \/ GGenerateErMermaid
    \/ GSetActiveTables
    \/ GExecutePythonCode
    \/ AskUser
    \/ AnswerAsk
    \/ ToolReturn

SpecGuard == InitGuard /\ [][NextGuard]_vars

-----------------------------------------------------------------------------
(* Properties of the guarded session *)

\* the tools the ER guard stands in front of
ErGuardedOps == {"exec_sql", "export_query_tsv", "execute_python_code"}

\* the last call was answered by the guard with the given error, and the
\* wrapped tool did nothing: no mysql process, no file, no toolkit change
RefusedWith(error) ==
    /\ last.guard = "refused"
    /\ last.exc = NoExc
    /\ last.ret.success = FALSE
    /\ last.ret.error = error
    /\ last.calls = <<>>
    /\ fs = last.fs_before

\* C3: in the run_webui_agents wiring, after a generate_er_mermaid or
\* set_active_tables call and before an ER confirmation is recorded, every
\* call of exec_sql, export_query_tsv and execute_python_code returns the
\* refusal GUARD_ER_CONFIRM_REQUIRED with success = false, and the wrapped
\* tool is not invoked.
AgentsErGuardRefuses ==
    (launcher = "agents" /\ er_unconfirmed /\ last.op \in ErGuardedOps)
        => RefusedWith("GUARD_ER_CONFIRM_REQUIRED")

\* C3 witness: an export is refused after the active tables were changed
AgentsExportRefusedAfterErChange ==
    /\ launcher = "agents"
    /\ er_unconfirmed
    /\ last.op = "export_query_tsv"
    /\ RefusedWith("GUARD_ER_CONFIRM_REQUIRED")

\* C4: in the run_webui_clean wiring, after a generate_er_mermaid or
\* set_active_tables call and before an ER confirmation is recorded, every
\* call of exec_sql, export_query_tsv and execute_python_code is refused with
\* GUARD_ER_CONFIRM_REQUIRED and the wrapped tool is not invoked.
CleanErGuardRefuses ==
    (launcher = "clean" /\ er_unconfirmed /\ last.op \in ErGuardedOps)
        => RefusedWith("GUARD_ER_CONFIRM_REQUIRED")

\* C5: in both launchers the real Python executor runs only if an exec_sql or
\* export_query_tsv call completed successfully since the latest
\* generate_er_mermaid / set_active_tables call (or since the session began);
\* otherwise execute_python_code returns a refusal without running the code,
\* GUARD_ER_CONFIRM_REQUIRED when the ER change is unconfirmed (tested first)
\* and GUARD_DB_REQUIRED else.
PythonOnlyAfterRead ==
    last.op = "execute_python_code" =>
        /\ last.guard = "passed" => read_since_reset
        /\ ~read_since_reset =>
              IF er_unconfirmed
              THEN RefusedWith("GUARD_ER_CONFIRM_REQUIRED")
              ELSE RefusedWith("GUARD_DB_REQUIRED")
        /\ er_unconfirmed => RefusedWith("GUARD_ER_CONFIRM_REQUIRED")

\* C5 witness: the executor runs after an ER change was confirmed and a read
\* was made
PythonRanAfterConfirmedRead ==
    /\ last.op = "execute_python_code"
    /\ last.guard = "passed"
    /\ last.ret.success = TRUE
    /\ er_confirmed
    /\ read_since_reset

\* C6: in the run_webui_agents wiring every call ask_user(question) sends one
\* ask event carrying the question and a fresh ask id, waits for the answer
\* with that id, and returns the answer's text.
AgentsAskUserSendsOneAsk ==
    (launcher = "agents" /\ last.op = "ask_user") =>
        /\ last.exc = NoExc
        /\ Len(events) = next_ask_id
        /\ events # <<>>
        /\ events[Len(events)] = AskEvent(last.args.question, AskId(next_ask_id))
        /\ \A i \in 1..(Len(events) - 1) : events[i].ask_id # AskId(next_ask_id)
        /\ last.guard = "waiting" <=> asking # <<>>
        /\ last.guard = "answered" => last.ret \in Answers

-----------------------------------------------------------------------------
(* A schema session: the tools that read or could touch the schema cache,  *)
(* over a server whose catalog changes between introspections              *)

\* database "shop" as first seen: orders and users, orders.user_id -> users.id
ShopBoth == <<Ok(TablesOut), Ok(ColsOut), Ok(FksOut)>>

\* "shop" after orders was dropped
ShopUsersOnly ==
    <<Ok("users\n"),
      Ok("users\tid\tPRI\tint\tNO\nusers\tname\t\tvarchar\tYES\n"),
      Ok("")>>

\* "shop" as seen by a user who may not read users: the foreign key of
\* orders references a table the table list does not hold
ShopOrdersOnly ==
    <<Ok("orders\n"),
      Ok("orders\tid\tPRI\tint\tNO\norders\tuser_id\tMUL\tint\tNO\n"),
      Ok(FksOut)>>

\* database "crm": names the diagram has to sanitize
CrmCatalog ==
    <<Ok("audit log\nusers\n"),
      Ok("audit log\tuser id\tMUL\tbigint\tNO\naudit log\t2fa\t\ttinyint(1)\tYES\n"
         \o "users\tid\tPRI\tint\tNO\n"),
      Ok("audit log\tuser id\tusers\tid\n")>>

AllFail == <<Fail, Fail, Fail>>

\* the connection is lost after the table list, or after the columns
ColsFail == <<Ok("users\n"), Fail, Fail>>

FksFail == <<Ok(TablesOut), Ok(ColsOut), Fail>>

\* what the client answers to the catalog queries about database db
CatalogResps(db) ==
    IF db = "shop"
    THEN {ShopBoth, ShopUsersOnly, ShopOrdersOnly, AllFail, ColsFail, FksFail}
    ELSE IF db = "crm" THEN {CrmCatalog, AllFail}
    ELSE {AllFail}

\* the answers a tool that introspects only when the cache misses can get
MissResps(self, d) ==
    IF resolve_db(self, d) \in DOMAIN self.schema_cache THEN {AllFail}
    ELSE CatalogResps(resolve_db(self, d))

SchemaConns ==
    { MysqlConn("db1", 3306, "ro", "pw1", "shop"),
      MysqlConn("db1", 3306, "ro", "pw2", "shop"),
      MysqlConn("db1", 3306, "ro", "pw1", None) }

SchemaDbArgs == {None, "shop", "crm"}

\* tables arguments: none, one table, both tables against the catalog order,
\* a repeated and an unknown name
TableFilters == {<<>>, <<"users">>, <<"users", "orders">>, <<"users", "ghost", "users">>}

ActiveArgs == {<<>>, <<"users">>, <<"users", "orders">>, <<"order\"s\\1">>}

SessionPath == "./.utu_mysql_session.json"

SSetConnection ==
    \E c \in SchemaConns :
        /\ Called("set_connection", [conn |-> c],
                  set_connection(Self, fs, c.host, c.port, c.user, c.password,
                                 c.database, <<Ok("1\n")>>))
        /\ UNCHANGED guard_vars

SIntrospectSchema ==
    \E d \in SchemaDbArgs :
        \E resps \in CatalogResps(resolve_db(Self, d)) :
            /\ Called("introspect_schema", [database |-> d],
                      introspect_schema(Self, fs, d, resps))
            /\ UNCHANGED guard_vars

SGenerateErMermaid ==
    \E d \in SchemaDbArgs, ts \in TableFilters :
        \E resps \in MissResps(Self, d) :
            /\ Called("generate_er_mermaid", [database |-> d, tables |-> ts],
                      generate_er_mermaid(Self, fs, d, ts, resps))
            /\ UNCHANGED guard_vars

SListTables ==
    \E d \in SchemaDbArgs :
        \E resps \in MissResps(Self, d) :
            /\ Called("list_tables", [database |-> d], list_tables(Self, fs, d, resps))
            /\ UNCHANGED guard_vars

SFindSemanticTables ==
    \E d \in SchemaDbArgs :
        \E resps \in MissResps(Self, d) :
            /\ Called("find_semantic_tables",
                      [keywords |-> <<"user">>, database |-> d, top_k |-> 5],
                      find_semantic_tables(Self, fs, <<"user">>, d, 5, resps))
            /\ UNCHANGED guard_vars

SSetActiveTables ==
    \E ts \in ActiveArgs :
        /\ Called("set_active_tables", [tables |-> ts], set_active_tables(Self, fs, ts))
        /\ UNCHANGED guard_vars

SGetActiveSelection ==
    /\ Called("get_active_selection", <<>>, get_active_selection(Self, fs))
    /\ UNCHANGED guard_vars

SExecSql ==
    \E d \in {None, "crm"}, resps \in {<<Ok(RowsOut)>>, <<Fail>>} :
        /\ Called("exec_sql",
                  [sql |-> "SELECT * FROM t", database |-> d, limit |-> DefaultLimit],
                  exec_sql(Self, fs, "SELECT * FROM t", d, DefaultLimit, resps))
        /\ UNCHANGED guard_vars

SExportQueryTsv ==
    \E d \in {None, "crm"} :
        /\ Called("export_query_tsv",
                  [sql |-> "SELECT * FROM t", out_path |-> "out.tsv", database |-> d,
                   limit |-> NoInt],
                  export_query_tsv(Self, fs, "SELECT * FROM t", "out.tsv", d, NoInt,
                                   <<Ok(RowsOut)>>))
        /\ UNCHANGED guard_vars

SSaveSession ==
    \E path \in {SessionPath, "sessions/s1.json"} :
        /\ Called("save_session", [path |-> path], save_session(Self, fs, path))
        /\ UNCHANGED guard_vars

SLoadSession ==
    \E path \in {SessionPath, "out.tsv"} :
        /\ Called("load_session", [path |-> path], load_session(Self, fs, path))
        /\ UNCHANGED guard_vars

NextSchema ==
    \/ SSetConnection
    \/ SIntrospectSchema
    \/ SGenerateErMermaid
    \/ SListTables
    \/ SFindSemanticTables
    \/ SSetActiveTables
    \/ SGetActiveSelection
    \/ SExecSql
    \/ SExportQueryTsv
    \/ SSaveSession
    \/ SLoadSession
    \/ ToolReturn

SpecSchema == Init /\ [][NextSchema]_vars

-----------------------------------------------------------------------------
(* Properties of the schema cache *)

\* the database the last call resolved: its argument, else the default
CallDb == Or(last.args.database, conn.database)

\* what the latest successful introspection of d read from the client
LatestSnapshot(d) ==
    [database |-> d,
     tables |-> StrippedNonBlank(SplitLines(introspected[d].latest[1])),
     columns |-> ParseColumns(SplitLines(introspected[d].latest[2])),
     fks |-> ParseFks(SplitLines(introspected[d].latest[3]))]

\* C11: after a successful introspect_schema(d) the cached snapshot of d is
\* exactly the tables, columns and foreign keys that call read, nothing of
\* an earlier snapshot is kept, and list_tables(d) returns those tables: a
\* table the latest introspection no longer returned is absent from both.
CacheIsLatestIntrospection ==
    /\ DOMAIN schema_cache = DOMAIN introspected
    /\ \A d \in DOMAIN schema_cache : schema_cache[d] = LatestSnapshot(d)
    /\ (last.op = "introspect_schema" /\ last.exc = NoExc)
          => /\ last.ret = schema_cache[CallDb]
             /\ last.ret = LatestSnapshot(CallDb)
    /\ (last.op = "list_tables" /\ last.exc = NoExc)
          => last.ret = LatestSnapshot(CallDb).tables

\* C11 witness: list_tables answers from the cache after a second
\* introspection dropped a table the first one had returned
ListTablesAfterTableDropped ==
    /\ last.op = "list_tables"
    /\ last.exc = NoExc
    /\ last.calls = <<>>
    /\ \E t \in introspected[CallDb].ever :
          /\ ~InSeq(t, last.ret)
          /\ ~InSeq(t, schema_cache[CallDb].tables)

\* C12: once a snapshot of d is cached, only a successful introspect_schema
\* of d changes the cache entry of d; no other tool alters or evicts it.
CacheEntryChangedOnlyByIntrospection ==
    [][\A d \in DOMAIN schema_cache :
          \/ d \in DOMAIN schema_cache' /\ schema_cache'[d] = schema_cache[d]
          \/ /\ last'.op = "introspect_schema"
             /\ last'.exc = NoExc
             /\ Or(last'.args.database, conn.database) = d]_vars

\* C12 witness: introspect_schema of crm succeeded while a snapshot of shop,
\* not the default database, stayed cached
OtherDatabaseIntrospectedWhileCached ==
    /\ last.op = "introspect_schema"
    /\ last.exc = NoExc
    /\ CallDb = "crm"
    /\ "shop" \in DOMAIN schema_cache
    /\ schema_cache["shop"].tables = <<"users">>
    /\ conn.database = None

\* the statements of a sequence of client invocations
Statements(calls) == [i \in 1..Len(calls) |-> StatementOf(calls[i])]

\* the three catalog queries of one introspection of d
CatalogQueries(d) == <<sql_tables(d), sql_cols(d), sql_fks(d)>>

\* C13: generate_er_mermaid leaves the connection, the active selection and
\* the files unchanged; when a snapshot of the database is cached it makes no
\* client invocation and leaves the cache unchanged; when none is cached it
\* makes one introspection of that database (its three catalog queries, cut
\* short by the first that fails) and, when that succeeds, caches exactly
\* its snapshot, leaving the entries of other databases alone.
ErMermaidTouchesOnlyCache ==
    [][last'.op = "generate_er_mermaid" =>
          LET d == Or(last'.args.database, conn.database)
          IN /\ conn' = conn
             /\ active_tables' = active_tables
             /\ fs' = fs
             /\ ~Truthy(d) => (last'.calls = <<>> /\ schema_cache' = schema_cache)
             /\ (Truthy(d) /\ d \in DOMAIN schema_cache)
                   => (last'.calls = <<>> /\ schema_cache' = schema_cache)
             /\ (Truthy(d) /\ d \notin DOMAIN schema_cache)
                   => /\ Len(last'.calls) <= 3
                      /\ Statements(last'.calls)
                            = SubSeq(CatalogQueries(d), 1, Len(last'.calls))
                      /\ last'.exc # NoExc => schema_cache' = schema_cache
                      /\ last'.exc = NoExc
                            => /\ Len(last'.calls) = 3
                               /\ DOMAIN schema_cache' = DOMAIN schema_cache \cup {d}
                               /\ \A e \in DOMAIN schema_cache :
                                     schema_cache'[e] = schema_cache[e]
                               /\ schema_cache'[d].tables
                                     = StrippedNonBlank(SplitLines(last'.calls[1].output))
                               /\ schema_cache'[d].columns
                                     = ParseColumns(SplitLines(last'.calls[2].output))
                               /\ schema_cache'[d].fks
                                     = ParseFks(SplitLines(last'.calls[3].output))]_vars

\* C13 witness: a diagram of an uncached database was generated by one
\* introspection while an active selection and another snapshot were held
ErMermaidIntrospectedOnMiss ==
    /\ last.op = "generate_er_mermaid"
    /\ last.exc = NoExc
    /\ Len(last.calls) = 3
    /\ CallDb = "crm"
    /\ active_tables = <<"users">>
    /\ DOMAIN schema_cache = {"shop", "crm"}

-----------------------------------------------------------------------------
(* Properties of the database-scoped tools *)

\* the tools that take an optional database
DbScopedOps ==
    {"introspect_schema", "generate_er_mermaid", "list_tables", "list_tables_like",
     "list_tables_detailed", "show_create_table", "show_indexes",
     "get_table_row_count", "find_semantic_tables", "export_query_tsv", "exec_sql"}

\* C14: a database-scoped tool called with no database argument while the
\* stored connection has no default database fails with a validation error
\* (ValueError "database is not set..."), makes no client invocation and
\* leaves the schema cache (and the files) unchanged.
NoDatabaseFailsValidation ==
    [][(last'.op \in DbScopedOps /\ ~Truthy(Or(last'.args.database, conn.database)))
          => /\ last'.exc = "ValueError"
             /\ StartsWith(last'.msg, "database is not set")
             /\ last'.calls = <<>>
             /\ schema_cache' = schema_cache
             /\ fs' = fs]_vars

\* C14 witness: with a complete connection that names no database and a
\* snapshot in the cache, an export without database argument was refused
ExportRefusedWithoutDatabase ==
    /\ last.op = "export_query_tsv"
    /\ last.args.database = None
    /\ conn.database = None
    /\ ConnComplete
    /\ schema_cache # NewToolkit.schema_cache
    /\ last.exc = "ValueError"
    /\ last.msg = "database is not set"
    /\ last.calls = <<>>

-----------------------------------------------------------------------------
(* Properties of the ER diagram *)

\* generate_er_mermaid returned a diagram
DiagramReturned == last.op = "generate_er_mermaid" /\ last.exc = NoExc

\* the snapshot the diagram was drawn from
DiagramSnapshot == schema_cache[CallDb]

DiagramLines == SplitLines(last.ret)

Range(xs) == { xs[i] : i \in 1..Len(xs) }

\* the filter in force: the tables argument when non-empty, else the stored
\* selection when non-empty, else every table of the snapshot
FilterInForce ==
    IF last.args.tables # <<>> THEN Range(last.args.tables)
    ELSE IF active_tables # <<>> THEN Range(active_tables)
    ELSE Range(DiagramSnapshot.tables)

\* the filtered set: the filter in force cut down to the snapshot's tables
FilteredTables == FilterInForce \cap Range(DiagramSnapshot.tables)

\* the entity names of the diagram's entity blocks, in the order drawn
EntityNames ==
    LET heads == SelectSeq(DiagramLines, LAMBDA l : EndsWith(l, " {"))
    IN [i \in 1..Len(heads) |-> SubSeq(heads[i], 3, Len(heads[i]) - 2)]

\* the relationship lines of the diagram, in the order drawn
RelationshipLines == SelectSeq(DiagramLines, LAMBDA l : Contains(l, " ||--o{ "))

\* C15: the tables generate_er_mermaid renders are the resolved filter
\* (explicit argument, else stored selection, else all) intersected with the
\* snapshot's tables; unknown names are dropped without error and the
\* explicit filter wins over the stored selection.
RenderedTablesAreFilterInSnapshot ==
    (last.op = "generate_er_mermaid" /\ Truthy(CallDb) /\ CallDb \in DOMAIN schema_cache)
        => /\ last.exc = NoExc
           /\ Range(EntityNames)
                 = { sanitize_identifier(t, "T") : t \in FilteredTables }

\* C15 witness: an explicit filter with an unknown name was rendered while a
\* different selection was stored
ExplicitFilterBeatsSelection ==
    /\ DiagramReturned
    /\ last.args.tables = <<"users", "ghost", "users">>
    /\ active_tables = <<"users", "orders">>
    /\ DiagramSnapshot.tables = <<"orders", "users">>
    /\ Range(EntityNames) = {"users"}

\* C16: generate_er_mermaid draws one entity block per filtered table, in
\* the order of the snapshot's table sequence, each table once whatever the
\* order or repetition of names in the filter.
EntityBlocksInSnapshotOrder ==
    DiagramReturned =>
        LET kept == SelectSeq(DiagramSnapshot.tables, LAMBDA t : t \in FilteredTables)
        IN EntityNames = [i \in 1..Len(kept) |-> sanitize_identifier(kept[i], "T")]

\* the relationship line the diagram holds for foreign key fk
LineOf(fk) ==
    "  " \o sanitize_identifier(fk.ref_table, "T") \o " ||--o{ "
    \o sanitize_identifier(fk.table, "T") \o " : "
    \o sanitize_identifier(fk.column, "C") \o "__TO__"
    \o sanitize_identifier(fk.ref_column, "C")

\* C17: generate_er_mermaid draws exactly one relationship line for each
\* foreign key whose child table and referenced table are both in the
\* filtered set, and none for a foreign key with an endpoint outside it (a
\* referenced table missing from the snapshot included).
RelationshipsWithinFilteredSet ==
    DiagramReturned =>
        LET inside == SelectSeq(DiagramSnapshot.fks,
                                LAMBDA fk : fk.table \in FilteredTables
                                            /\ fk.ref_table \in FilteredTables)
        IN RelationshipLines = [i \in 1..Len(inside) |-> LineOf(inside[i])]

\* C17 witness: with orders and users in the snapshot, the foreign key
\* orders.user_id -> users.id, and users alone selected, the diagram holds no
\* relationship line and only the block of users
ChildOutsideFilterNoRelationship ==
    /\ DiagramReturned
    /\ DiagramSnapshot.tables = <<"orders", "users">>
    /\ Len(DiagramSnapshot.fks) = 1
    /\ FilteredTables = {"users"}
    /\ RelationshipLines = <<>>
    /\ Range(EntityNames) = {"users"}

-----------------------------------------------------------------------------
(* The two helpers of the diagram, applied to names and type strings *)

\* names are at most MaxNameLen characters of NameAlphabet
MaxNameLen == 2

NameAlphabet == {"a", "Z", "7", "_", " ", "-"}

RECURSIVE StringsUpTo(_, _)
StringsUpTo(alphabet, n) ==
    IF n = 0 THEN {""}
    ELSE StringsUpTo(alphabet, n - 1)
         \cup { x \o c : x \in StringsUpTo(alphabet, n - 1), c \in alphabet }

NameInputs ==
    StringsUpTo(NameAlphabet, MaxNameLen) \cup {None, "order items", "user_id", " users "}

PrefixInputs == {"T", "C"}

\* type strings are at most MaxTypeParts fragments put together
MaxTypeParts == 2

TypeFragments ==
    {"int", "time", "char", "decimal", "bool", "tinyint(1)", "DATE", "Double",
     "json", "(10)", "x"}

TypeInputs == StringsUpTo(TypeFragments, MaxTypeParts) \cup {None}

SanitizeIdentifier ==
    \E name \in NameInputs, prefix \in PrefixInputs :
        /\ Called("_sanitize_identifier", [name |-> name, prefix |-> prefix],
                  Return(Self, fs, sanitize_identifier(name, prefix), <<>>))
        /\ UNCHANGED guard_vars

NormalizeType ==
    \E t \in TypeInputs :
        /\ Called("_normalize_type", [t |-> t],
                  Return(Self, fs, normalize_type(t), <<>>))
        /\ UNCHANGED guard_vars

NextPure ==
    \/ SanitizeIdentifier
    \/ NormalizeType
    \/ ToolReturn

SpecPure == Init /\ [][NextPure]_vars

\* the characters of [A-Za-z0-9_]
WordChars ==
    { Char(Lower, i) : i \in 1..Len(Lower) }
    \cup { Char(UpperCase, i) : i \in 1..Len(UpperCase) }
    \cup { Char(Digits, i) : i \in 1..Len(Digits) }
    \cup {"_"}

Letters ==
    { Char(Lower, i) : i \in 1..Len(Lower) }
    \cup { Char(UpperCase, i) : i \in 1..Len(UpperCase) }

\* r is text with every character outside [A-Za-z0-9_] replaced by "_"
IsReplaced(r, text) ==
    /\ Len(r) = Len(text)
    /\ \A i \in 1..Len(text) :
          Char(r, i) = (IF Char(text, i) \in WordChars THEN Char(text, i) ELSE "_")

\* r is the sanitized form of text under tag prefix_: text with its
\* characters replaced, after the tag when that is empty or starts with no
\* letter
IsSanitized(r, text, prefix) ==
    IF text # "" /\ Char(text, 1) \in Letters
    THEN IsReplaced(r, text)
    ELSE /\ StartsWith(r, prefix \o "_")
         /\ IsReplaced(SubSeq(r, Len(prefix) + 2, Len(r)), text)

\* the name argument of the last call, None read as ""
NameArg == Or(last.args.name, "")

\* C18 as stated: the sanitizer returns the name with every character
\* outside [A-Za-z0-9_] replaced by "_", prefixed with the tag when that is
\* empty or does not start with a letter; a clean identifier is unchanged.
SanitizerReplacesEveryCharacter ==
    last.op = "_sanitize_identifier" =>
        /\ IsSanitized(last.ret, NameArg, last.args.prefix)
        /\ (NameArg # "" /\ Char(NameArg, 1) \in Letters
            /\ \A i \in 1..Len(NameArg) : Char(NameArg, i) \in WordChars)
              => last.ret = NameArg

\* C18 (amended): the sanitizer first strips leading and trailing whitespace
\* from the name, then replaces every remaining character outside
\* [A-Za-z0-9_] by "_", and prefixes the tag when that result is empty or
\* does not start with a letter; a clean identifier is returned unchanged.
SanitizerStripsThenReplaces ==
    last.op = "_sanitize_identifier" =>
        /\ IsSanitized(last.ret, Strip(NameArg), last.args.prefix)
        /\ (NameArg # "" /\ Char(NameArg, 1) \in Letters
            /\ \A i \in 1..Len(NameArg) : Char(NameArg, i) \in WordChars)
              => last.ret = NameArg

\* C18 witness: a name with a space at each end and one inside
SanitizedNameWithOuterSpaces ==
    /\ last.op = "_sanitize_identifier"
    /\ last.args.name = " users "
    /\ last.args.prefix = "T"
    /\ last.ret = "users"

\* the normalizer's rules in the order tried: bucket and the substrings
\* that select it
TypeRules ==
    << [bucket |-> "int", words |-> {"int"}],
       [bucket |-> "float", words |-> {"decimal", "numeric", "float", "double", "real"}],
       [bucket |-> "bool", words |-> {"bool", "tinyint(1)"}],
       [bucket |-> "datetime", words |-> {"date", "time", "year", "timestamp"}],
       [bucket |-> "string", words |-> {"char", "text", "blob", "binary", "json"}] >>

RuleMatches(i, tl) == \E w \in TypeRules[i].words : Contains(tl, w)

\* the lower-cased type argument of the last call, None read as ""
TypeArg == ToLower(Or(last.args.t, ""))

\* C19: the normalizer returns the bucket of the first rule, in the order
\* int, float, bool, datetime, string, one of whose words is a substring of
\* the lower-cased type, and string when no rule matches; so every type
\* containing "int" yields int.
NormalizerFirstRuleWins ==
    last.op = "_normalize_type" =>
        /\ \A i \in 1..Len(TypeRules) :
              (RuleMatches(i, TypeArg) /\ \A j \in 1..(i - 1) : ~RuleMatches(j, TypeArg))
                  => last.ret = TypeRules[i].bucket
        /\ (\A i \in 1..Len(TypeRules) : ~RuleMatches(i, TypeArg)) => last.ret = "string"
        /\ Contains(TypeArg, "int") => last.ret = "int"

\* C19 witness: a type holding both "time" and "int" is an int
TimeAndIntIsInt ==
    /\ last.op = "_normalize_type"
    /\ Contains(TypeArg, "time")
    /\ Contains(TypeArg, "tinyint(1)")
    /\ last.ret = "int"

-----------------------------------------------------------------------------
(* The session file *)

SessionSaved == last.op = "save_session" /\ last.exc = NoExc

\* the text save_session left in the file it was asked to write
SessionText == fs.files[last.args.path]

\* the toolkit with another password and nothing else changed
WithPassword(pw) ==
    Toolkit([conn EXCEPT !.password = pw], schema_cache, active_tables)

OtherPasswords == {"", "pw1", "pw2", "ro", "shop"}

\* the names of the members of a parsed document, in file order
Keys(ms) == [i \in 1..Len(ms) |-> ms[i][1]]

\* C20: the file save_session wrote parses to a document with exactly the
\* members host, port, user, database and active_tables, holding the
\* toolkit's values; the password is no part of its text, and the toolkit
\* with any other password would have written the same files.
SessionFileOmitsPassword ==
    SessionSaved =>
        LET doc == json_load(SessionText)
        IN /\ doc.ok
           /\ Keys(doc.members) = <<"host", "port", "user", "database", "active_tables">>
           /\ GetStr(doc.members, "host", "?") = conn.host
           /\ GetInt(doc.members, "port", 0) = conn.port
           /\ GetStr(doc.members, "user", "?") = conn.user
           /\ GetStr(doc.members, "database", "?") = conn.database
           /\ GetList(doc.members, "active_tables", <<"?">>) = active_tables
           /\ conn.password # "" => ~Contains(SessionText, conn.password)
           /\ \A pw \in OtherPasswords :
                 save_session(WithPassword(pw), last.fs_before, last.args.path).files = fs

\* C20 witness: a session with a password and a selection was saved
SessionSavedWithPassword ==
    /\ SessionSaved
    /\ conn.password = "pw2"
    /\ active_tables = <<"users", "orders">>
    /\ Contains(SessionText, "orders")

-----------------------------------------------------------------------------
(* Saving and loading a session *)

\* a step in which load_session is called
LoadSessionStep == last.op = "idle" /\ last'.op = "load_session"

\* C21: load_session of a path last written by save_session puts host,
\* port, user, database and active_tables back to their values at save
\* time, whatever was changed in between, and leaves the password, the
\* schema cache and the files as they are; load_session of a missing path
\* returns ok = false and changes no state.
LoadRestoresSavedSession ==
    [][LoadSessionStep =>
          /\ last'.args.path \in DOMAIN saved =>
                /\ last'.exc = NoExc
                /\ last'.ret.ok
                /\ SessionFields(Toolkit(conn', schema_cache', active_tables'))
                      = saved[last'.args.path]
                /\ conn'.password = conn.password
                /\ schema_cache' = schema_cache
                /\ fs' = fs
          /\ last'.args.path \notin DOMAIN fs.files =>
                /\ last'.exc = NoExc
                /\ ~last'.ret.ok
                /\ UNCHANGED <<conn, schema_cache, active_tables, fs>>]_vars

\* C21 witness: a file written by save_session was loaded, with a schema
\* snapshot cached, and the selection it put back holds a name with a quote
\* and a backslash
SessionRestoredAfterChanges ==
    /\ last.op = "load_session"
    /\ last.exc = NoExc
    /\ last.args.path \in DOMAIN last.fs_before.files
    /\ last.args.path \in DOMAIN saved
    /\ active_tables = <<"order\"s\\1">>
    /\ conn.database = "shop"
    /\ conn.password = "pw2"
    /\ "shop" \in DOMAIN schema_cache

-----------------------------------------------------------------------------
(* The export, checked under Spec *)

ExportSucceeded == last.op = "export_query_tsv" /\ last.exc = NoExc

LimitPositive == last.args.limit # NoInt /\ last.args.limit[1] > 0

\* stmt inside the wrapper with the row cap of the call
ExportWrapped(stmt) ==
    "SELECT * FROM ( " \o stmt \o " ) AS _sub LIMIT " \o IntStr(last.args.limit[1])

\* the source statement without the white space around it and without
\* one semicolon at its end
ExportTrimmed ==
    LET s == Strip(last.args.sql)
    IN IF s # "" /\ Char(s, Len(s)) = ";" THEN SubSeq(s, 1, Len(s) - 1) ELSE s

\* the file is the client's output of the one invocation, made with the
\* header on, and the path is returned
ExportWroteRawOutput ==
    /\ Len(last.calls) = 1
    /\ ~HasFlag(last.calls[1].args, "-N")
    /\ last.args.out_path \in DOMAIN fs.files
    /\ fs.files[last.args.out_path] = last.calls[1].output
    /\ last.ret = last.args.out_path

\* C22 as stated: a successful export_query_tsv wrote the client's raw
\* output, header included, to out_path and returned out_path; the statement
\* sent is the source statement wrapped when limit is positive, and the
\* source statement otherwise.
ExportSendsSourceStatement ==
    ExportSucceeded =>
        /\ ExportWroteRawOutput
        /\ SentSql = IF LimitPositive THEN ExportWrapped(last.args.sql) ELSE last.args.sql

\* C22 (amended): as above, with the source statement taken without its
\* surrounding white space and without one trailing semicolon, both inside
\* the wrapper and when sent unwrapped.
ExportSendsTrimmedStatement ==
    ExportSucceeded =>
        /\ ExportWroteRawOutput
        /\ SentSql = IF LimitPositive THEN ExportWrapped(ExportTrimmed) ELSE ExportTrimmed

\* C22 witness: a result of three rows was exported under a row cap, from a
\* statement with white space and a semicolon around it, into a file of a
\* header line and three lines, each with a tab
ThreeRowsExportedUnderLimit ==
    /\ ExportSucceeded
    /\ LimitPositive
    /\ last.args.sql = " select 1 ; "
    /\ Len(SplitLines(fs.files[last.args.out_path])) = 4
    /\ \A i \in 1..4 : Contains(SplitLines(fs.files[last.args.out_path])[i], "\t")

-----------------------------------------------------------------------------
(* Incoming chat messages *)

\* a message as json.loads reads it: text that is no JSON ("invalid"), a
\* JSON value that is no object ("list"), or an object with its "type"
\* member and its "content" member: absent ("none"), an object with or
\* without a "query" member ("dict"), or a string ("str")
Message(json, type, content, query) ==
    [json |-> json, type |-> type, content |-> content, query |-> query]

Messages ==
    { Message("invalid", None, "none", None),
      Message("list", None, "none", None),
      Message("dict", "query", "dict", "yes"),
      Message("dict", "query", "dict", None),
      Message("dict", "query", "none", None),
      Message("dict", "query", "str", "yes"),
      Message("dict", "answer", "dict", None),
      Message("dict", "init", "none", None) }

\* UserAnswer(type="answer", ask_id=..., answer=...)
UserAnswer(ask_id, answer) == [type |-> "answer", ask_id |-> ask_id, answer |-> answer]

\* what a call of on_message did: the answers it delivered itself and how
\* often it called the original handler
Routed(answers, original) == [answers |-> answers, original |-> original]

\* _patched_on_message: a "query" that comes in while an ask is pending is
\* delivered as the answer; whatever raises on the way, and every other
\* message, goes to the original handler
patched_on_message(pending, ask_id, m) ==
    IF m.json = "invalid" THEN Routed(<<>>, 1)
    ELSE IF ~pending THEN Routed(<<>>, 1)
    ELSE IF m.json # "dict" THEN Routed(<<>>, 1)
    ELSE IF m.type # "query" THEN Routed(<<>>, 1)
    ELSE IF m.content = "str" THEN Routed(<<>>, 1)
    ELSE Routed(<<UserAnswer(ask_id, Or(m.query, ""))>>, 0)

\* WebSocketHandler.on_message as each launcher leaves it
on_message(L, pending, ask_id, m) ==
    IF L = "agents" THEN patched_on_message(pending, ask_id, m) ELSE Routed(<<>>, 1)

\* a message comes in between two tool calls or while ask_user waits; an
\* answer that on_message delivers is taken from the queue by the waiting
\* ask_user, which returns its text
OnMessage ==
    \E m \in Messages :
        LET r == on_message(launcher, pending_ask, pending_ask_id, m)
        IN /\ last.op = "idle" \/ asking # <<>>
           /\ handled' = [message |-> m, answers |-> r.answers, original |-> r.original,
                          odd |-> ~handled.odd]
           /\ IF r.answers # <<>> /\ asking # <<>>
                 /\ r.answers[1].ask_id = asking[1].ask_id
              THEN /\ asking' = <<>>
                   /\ pending_ask' = FALSE
                   /\ pending_ask_id' = None
                   /\ er_required' =
                         IF is_er_question(last_ask_question) THEN FALSE ELSE er_required
                   /\ er_confirmed' =
                         IF is_er_question(last_ask_question) THEN TRUE ELSE er_confirmed
                   /\ er_unconfirmed' =
                         IF is_er_question(last_ask_question) THEN FALSE
                         ELSE er_unconfirmed
                   /\ last' = AskCall(asking[1].question, NoExc, "",
                                      r.answers[1].answer, "answered")
              ELSE UNCHANGED <<asking, pending_ask, pending_ask_id, er_required,
                               er_confirmed, er_unconfirmed, last>>
           /\ UNCHANGED tk_vars
           /\ UNCHANGED <<launcher, observed_db_read, last_ask_question, events,
                          next_ask_id, read_since_reset, introspected, saved, agent>>

NextChat ==
    \/ GSetConnection
    \/ GExecSql
    \/ GExportQueryTsv
    \/ GGenerateErMermaid
    \/ GSetActiveTables
    \/ GExecutePythonCode
    \/ AskUser
    \/ AnswerAsk
    \/ OnMessage
    \/ ToolReturn

SpecChat == InitGuard /\ [][NextChat]_vars

(* Properties of the chat, checked under SpecChat *)

\* a step in which on_message handles a message (odd tells one message
\* from the next)
OnMessageStep == handled'.odd # handled.odd

\* a step in which ask_user is called
AskUserStep == last.op = "idle" /\ last'.op = "ask_user"

-----------------------------------------------------------------------------
(* The ER confirmation and the flags, checked under SpecGuard *)

\* a step in which the waiting ask_user gets its answer and returns
AskReturnsStep == asking # <<>> /\ asking' = <<>>

\* the question holds one of the keywords of an ER confirmation
HoldsErKeyword(q) == \E k \in ErKeywords : Contains(q, k)

\* C24: in the run_webui_clean wiring, when ask_user returns for a question
\* that holds an ER keyword the flags become er_required = false and
\* er_confirmed = true, whatever the answer, and an exec_sql called while
\* they stand is executed, not refused; when the question holds no keyword
\* both flags stay as they were.
CleanAnswerConfirmsEr ==
    [][launcher = "clean" =>
          /\ AskReturnsStep =>
                IF HoldsErKeyword(asking[1].question)
                THEN ~er_required' /\ er_confirmed'
                ELSE UNCHANGED <<er_required, er_confirmed>>
          /\ (last.op = "idle" /\ last'.op = "exec_sql" /\ ~er_required /\ er_confirmed)
                => last'.guard = "passed"]_vars

\* C24 witness: in the clean wiring exec_sql ran and returned rows after
\* the selection was changed and the one ask of the session, an ER
\* confirmation, was answered
CleanExecSqlRanAfterAnswer ==
    /\ launcher = "clean"
    /\ last.op = "exec_sql"
    /\ last.guard = "passed"
    /\ last.exc = NoExc
    /\ Len(last.calls) = 1
    /\ ~er_required
    /\ er_confirmed
    /\ Len(events) = 1
    /\ active_tables = <<"users">>

\* C27: in both launchers er_required and er_confirmed are never both true.
ErFlagsNeverBothTrue == ~(er_required /\ er_confirmed)

\* C27 witness: generate_er_mermaid was called after an ER confirmation had
\* been recorded, and the confirmation is gone
ErRequiredAgainAfterConfirmation ==
    /\ last.op = "generate_er_mermaid"
    /\ er_required
    /\ ~er_confirmed
    /\ \E i \in 1..Len(events) : HoldsErKeyword(events[i].question)
    /\ asking = <<>>
    /\ er_unconfirmed

\* the wrapped reads
GuardedReads == {"exec_sql", "export_query_tsv"}

\* C28: in both launchers observed_db_read becomes true only in a call of
\* the wrapped exec_sql or export_query_tsv that returned; such a call that
\* is refused, or whose wrapped operation raises, leaves observed_db_read,
\* er_required and er_confirmed as they were.
ReadObservedOnlyOnSuccess ==
    [][/\ (~observed_db_read /\ observed_db_read') =>
             /\ last'.op \in GuardedReads
             /\ last'.guard = "passed"
             /\ last'.exc = NoExc
       /\ (last.op = "idle" /\ last'.op \in GuardedReads
             /\ (last'.guard = "refused" \/ last'.exc # NoExc)) =>
             UNCHANGED <<observed_db_read, er_required, er_confirmed>>]_vars

\* C28 witness: the wrapped exec_sql raised on a client failure before any
\* read had been observed
GuardedReadRaisedUnobserved ==
    /\ last.op = "exec_sql"
    /\ last.guard = "passed"
    /\ last.exc = "RuntimeError"
    /\ Len(last.calls) = 1
    /\ ~observed_db_read

-----------------------------------------------------------------------------
(* A failed introspection, checked under SpecSchema *)

\* one of the client invocations of the call exited non-zero
SomeQueryFailed(calls) == \E i \in 1..Len(calls) : calls[i].exit # 0

\* C26: when one of the three catalog queries of introspect_schema fails,
\* the call raises and the schema cache is exactly what it was before the
\* call: the earlier snapshot of that database, if any, stays, and nothing
\* assembled from the queries that succeeded is stored.
FailedIntrospectionLeavesCache ==
    [][(last.op = "idle" /\ last'.op = "introspect_schema"
          /\ SomeQueryFailed(last'.calls)) =>
             /\ last'.exc = "RuntimeError"
             /\ schema_cache' = schema_cache]_vars

\* C26 witness: the foreign-key query failed after the table list and the
\* columns had been read, while an earlier snapshot with another table list
\* is cached
ThirdQueryFailedOverSnapshot ==
    /\ last.op = "introspect_schema"
    /\ Len(last.calls) = 3
    /\ last.calls[1].exit = 0
    /\ last.calls[2].exit = 0
    /\ last.calls[3].exit # 0
    /\ CallDb \in DOMAIN schema_cache
    /\ schema_cache[CallDb].tables # StrippedNonBlank(SplitLines(last.calls[1].output))

-----------------------------------------------------------------------------
(* A guarded session that saves and loads session files *)

\* the session file an earlier process left: a selection of one table
EarlierSession ==
    json_dump(session_data(Toolkit(GuardConn, [d \in {} |-> None], <<"users">>)))

\* a guarded session begins with or without the session file of an earlier
\* process at the default path
InitSession ==
    /\ conn = NewToolkit.conn
    /\ schema_cache = NewToolkit.schema_cache
    /\ active_tables = NewToolkit.active_tables
    /\ fs \in {NoFiles, WriteFile(NoFiles, SessionPath, EarlierSession)}
    /\ last = NoCall
    /\ launcher \in {"agents", "clean"}
    /\ observed_db_read = FALSE
    /\ er_required = FALSE
    /\ er_confirmed = FALSE
    /\ last_ask_question = ""
    /\ pending_ask = FALSE
    /\ pending_ask_id = None
    /\ events = <<>>
    /\ asking = <<>>
    /\ next_ask_id = 0
    /\ read_since_reset = FALSE
    /\ er_unconfirmed = FALSE
    /\ introspected = [d \in {} |-> {}]
    /\ saved = [p \in {} |-> {}]
    /\ handled = NoMessage
    /\ agent = NoAgent

\* save_session is not wrapped
GSaveSession ==
    /\ GuardedCalled("save_session", [path |-> SessionPath],
                     Guarded(H, save_session(Self, fs, SessionPath), "none"))
    /\ UNCHANGED <<read_since_reset, er_unconfirmed>>

\* load_session is not wrapped
GLoadSession ==
    /\ GuardedCalled("load_session", [path |-> SessionPath],
                     Guarded(H, load_session(Self, fs, SessionPath), "none"))
    /\ UNCHANGED <<read_since_reset, er_unconfirmed>>

NextSession ==
    \/ GSetConnection
    \/ GExecSql
    \/ GExportQueryTsv
    \/ GGenerateErMermaid
    \/ GSetActiveTables
    \/ GExecutePythonCode
    \/ GSaveSession
    \/ GLoadSession
    \/ AskUser
    \/ AnswerAsk
    \/ ToolReturn

SpecSession == InitSession /\ [][NextSession]_vars

\* C29: in a guarded session every change of the active table selection, by
\* set_active_tables or by load_session, leaves the session requiring the
\* ER confirmation (er_required true, er_confirmed false) with
\* observed_db_read reset, so that a read or a Python execution called
\* before the user confirms is refused.
SelectionChangeRequiresConfirmation ==
    [][active_tables' # active_tables =>
          /\ er_required'
          /\ ~er_confirmed'
          /\ ~observed_db_read']_vars

-----------------------------------------------------------------------------
(* SimpleAgent: build, cleanup and the two ways to run *)

\* ToolkitConfig.mode of the toolkits a configuration can name
ToolkitMode(name) ==
    IF name \in {"search", "python_executor"} THEN "builtin"
    ELSE IF name = "mysql_schema" THEN "customized"
    ELSE IF name = "github_mcp" THEN "mcp"
    ELSE "remote"

\* toolkit.get_tools_in_agents(): one tool per toolkit
ToolsOf(name) == <<name \o ".tool">>

\* self.current_agent before the first build
NoCurrentAgent == [built |-> FALSE, tools |-> <<>>, mcp_servers |-> <<>>]

\* what the last call on the agent did: the exception it raised, whether it
\* went through the body of build, and whether it started a runner run
AgentCall(op, exc, built, started) ==
    [op |-> op, exc |-> exc, built |-> built, started |-> started]

\* SimpleAgent(config=..., tools=..., toolkits=...): config_toolkits are the
\* names under config.toolkits in their order, env_tools what env.get_tools()
\* gives, ctor_tools the tools argument as it was handed in
NewAgent(config_toolkits, env_tools, tools, toolkits) ==
    [exists |-> TRUE,
     config_toolkits |-> config_toolkits,
     env_tools |-> env_tools,
     ctor_tools |-> tools,
     tools |-> tools,
     toolkits |-> toolkits,
     env |-> "none",
     current_agent |-> NoCurrentAgent,
     mcp_servers |-> <<>>,
     toolkit_map |-> {},
     initialized |-> FALSE,
     runs |-> 0,
     last |-> AgentCall("init", NoExc, FALSE, FALSE)]

\* _load_toolkit for each name in turn, as get_tools and
\* _load_toolkits_config do: builtin and customized toolkits go into
\* self._toolkits and give their tools, MCP servers are entered and
\* appended to self._mcp_servers, any other mode raises ValueError and what
\* was loaded before stays
RECURSIVE LoadToolkits(_, _, _)
LoadToolkits(a, names, tools) ==
    IF names = <<>> THEN [a |-> a, exc |-> NoExc, tools |-> tools]
    ELSE LET name == Head(names)
             mode == ToolkitMode(name)
         IN IF mode \in {"builtin", "customized"}
            THEN LoadToolkits([a EXCEPT !.toolkit_map = @ \cup {name}], Tail(names),
                              tools \o ToolsOf(name))
            ELSE IF mode = "mcp"
            THEN LoadToolkits([a EXCEPT !.mcp_servers = Append(@, name)], Tail(names),
                              tools)
            ELSE [a |-> a, exc |-> "ValueError", tools |-> tools]

\* get_tools: self.tools when it holds any tool; else the tools of the
\* toolkits named to the constructor; else the env tools and the tools of
\* the configured toolkits; the result is kept in self.tools
get_tools(a) ==
    IF a.tools # <<>> THEN [a |-> a, exc |-> NoExc]
    ELSE IF a.toolkits # <<>>
    THEN LET r == LoadToolkits(a, a.toolkits, <<>>)
         IN IF r.exc # NoExc THEN [a |-> r.a, exc |-> r.exc]
            ELSE [a |-> [r.a EXCEPT !.tools = r.tools], exc |-> NoExc]
    ELSE LET r == LoadToolkits(a, a.config_toolkits, a.env_tools)
         IN IF r.exc # NoExc THEN [a |-> r.a, exc |-> r.exc]
            ELSE [a |-> [r.a EXCEPT !.tools = r.tools], exc |-> NoExc]

\* build: nothing when already initialized; else the env is built, the
\* tools are collected, the Agent is made and _initialized is set
build(a) ==
    IF a.initialized THEN [a EXCEPT !.last = AgentCall("build", NoExc, FALSE, FALSE)]
    ELSE LET g == get_tools([a EXCEPT !.env = "built"])
         IN IF g.exc # NoExc
            THEN [g.a EXCEPT !.last = AgentCall("build", g.exc, TRUE, FALSE)]
            ELSE [g.a EXCEPT !.current_agent = [built |-> TRUE, tools |-> g.a.tools,
                                                mcp_servers |-> g.a.mcp_servers],
                             !.initialized = TRUE,
                             !.last = AgentCall("build", NoExc, TRUE, FALSE)]

\* cleanup: the MCP servers are closed and forgotten, the toolkits
\* forgotten, the env cleaned up (there is none before the first build:
\* AttributeError) and _initialized is cleared
cleanup(a) ==
    LET c == [a EXCEPT !.mcp_servers = <<>>, !.toolkit_map = {}]
    IN IF a.env = "none"
       THEN [c EXCEPT !.last = AgentCall("cleanup", "AttributeError", FALSE, FALSE)]
       ELSE [c EXCEPT !.env = "cleaned", !.initialized = FALSE,
                      !.last = AgentCall("cleanup", NoExc, FALSE, FALSE)]

\* A mutant of run_streamed: the run is started whether or not the agent
\* is initialized.
run_streamed_unchecked(a) ==
    [a EXCEPT !.runs = @ + 1, !.last = AgentCall("run_streamed", NoExc, FALSE, TRUE)]

\* run_streamed: RuntimeError unless initialized, else Runner.run_streamed
run_streamed(a) ==
    IF ~a.initialized
    THEN [a EXCEPT !.last = AgentCall("run_streamed", "RuntimeError", FALSE, FALSE)]
    ELSE [a EXCEPT !.runs = @ + 1,
                   !.last = AgentCall("run_streamed", NoExc, FALSE, TRUE)]

\* run: build first unless initialized, then Runner.run
run(a) ==
    LET b == IF a.initialized THEN a ELSE build(a)
    IN IF ~a.initialized /\ b.last.exc # NoExc
       THEN [b EXCEPT !.last = AgentCall("run", b.last.exc, TRUE, FALSE)]
       ELSE [b EXCEPT !.runs = @ + 1,
                      !.last = AgentCall("run", NoExc, ~a.initialized, TRUE)]

\* at most MaxRuns runner runs are started on an agent
MaxRuns == 2

\* the agents constructed: from the configuration alone (toolkits and an
\* MCP server, MCP servers only, a toolkit of an unknown mode), with
\* toolkits named to the constructor, and with tools handed to it
NewAgents ==
    { NewAgent(<<"search", "github_mcp", "mysql_schema">>, <<>>, <<>>, <<>>),
      NewAgent(<<"github_mcp">>, <<>>, <<>>, <<>>),
      NewAgent(<<"github_mcp">>, <<"env.tool">>, <<>>, <<>>),
      NewAgent(<<"search", "legacy">>, <<>>, <<>>, <<>>),
      NewAgent(<<>>, <<>>, <<>>, <<"python_executor", "github_mcp">>),
      NewAgent(<<"search">>, <<>>, <<"my.tool">>, <<>>) }

InitAgent ==
    /\ conn = NewToolkit.conn
    /\ schema_cache = NewToolkit.schema_cache
    /\ active_tables = NewToolkit.active_tables
    /\ fs = NoFiles
    /\ last = NoCall
    /\ launcher = "none"
    /\ observed_db_read = FALSE
    /\ er_required = FALSE
    /\ er_confirmed = FALSE
    /\ last_ask_question = ""
    /\ pending_ask = FALSE
    /\ pending_ask_id = None
    /\ events = <<>>
    /\ asking = <<>>
    /\ next_ask_id = 0
    /\ read_since_reset = FALSE
    /\ er_unconfirmed = FALSE
    /\ introspected = [d \in {} |-> {}]
    /\ saved = [p \in {} |-> {}]
    /\ handled = NoMessage
    /\ agent \in NewAgents

AgentFrame == UNCHANGED <<tk_vars, last, guard_vars, introspected, saved, handled>>

Build == agent' = build(agent) /\ AgentFrame

Cleanup == agent' = cleanup(agent) /\ AgentFrame

Run == agent.runs < MaxRuns /\ agent' = run(agent) /\ AgentFrame

RunStreamed == agent.runs < MaxRuns /\ agent' = run_streamed(agent) /\ AgentFrame

NextAgent ==
    \/ Build
    \/ Cleanup
    \/ Run
    \/ RunStreamed

SpecAgent == InitAgent /\ [][NextAgent]_vars

-----------------------------------------------------------------------------
(* Properties of SimpleAgent, checked under SpecAgent *)

\* a step that is a call of op on the agent
AgentStep(op) == agent' # agent /\ agent'.last.op = op

\* every field of the agent but the record of the last call
AgentFields(a) == [a EXCEPT !.last = AgentCall("init", NoExc, FALSE, FALSE)]

\* C25: a runner run starts only on an initialized agent: run on an agent
\* that is not initialized goes through build first and starts its run
\* when build has completed (the agent is initialized then; when build
\* raises, so does run, and no run starts); run_streamed on such an agent
\* raises RuntimeError, starts no run and changes nothing; build on an
\* initialized agent changes nothing.
RunsOnlyWhileInitialized ==
    [][/\ agent'.runs # agent.runs =>
             /\ agent'.runs = agent.runs + 1
             /\ agent'.initialized
             /\ agent'.last.started
       /\ (AgentStep("run") /\ ~agent.initialized) =>
             /\ agent'.last.built
             /\ agent'.env = "built"
             /\ IF agent'.last.exc = NoExc
                THEN agent'.initialized /\ agent'.runs = agent.runs + 1
                ELSE ~agent'.initialized /\ agent'.runs = agent.runs
       /\ (AgentStep("run_streamed") /\ ~agent.initialized) =>
             /\ agent'.last.exc = "RuntimeError"
             /\ AgentFields(agent') = AgentFields(agent)
       /\ (AgentStep("build") /\ agent.initialized) =>
             /\ agent'.last.exc = NoExc
             /\ AgentFields(agent') = AgentFields(agent)]_vars

\* C25 witness: run built the agent and started its second run, so the
\* agent had run before and had been cleaned up since
RunRebuiltCleanedAgent ==
    /\ agent.last = AgentCall("run", NoExc, TRUE, TRUE)
    /\ agent.runs = 2
    /\ agent.initialized

\* the toolkits the agent is to load: those named to the constructor, else
\* those of the configuration; none when it was handed its tools
ConfiguredToolkits(a) ==
    IF a.ctor_tools # <<>> THEN <<>>
    ELSE IF a.toolkits # <<>> THEN a.toolkits
    ELSE a.config_toolkits

\* C30: whenever the agent is initialized, its toolkit map holds every
\* configured builtin or customized toolkit and its MCP server list every
\* configured MCP server, after any sequence of build and cleanup calls.
InitializedAgentHoldsToolkits ==
    agent.initialized =>
        \A i \in 1..Len(ConfiguredToolkits(agent)) :
            LET name == ConfiguredToolkits(agent)[i]
            IN /\ ToolkitMode(name) \in {"builtin", "customized"}
                     => name \in agent.toolkit_map
               /\ ToolkitMode(name) = "mcp"
                     => \E j \in 1..Len(agent.mcp_servers) : agent.mcp_servers[j] = name

====
